---------------------------- MODULE Spec2Model ----------------------------
(***************************************************************************)
(* Graph retrieval and assembly layer of ESP-data (asset-viz).             *)
(*                                                                         *)
(* Three state machines share this module:                                 *)
(*   SpecValidator  the identifier validator applied to arbitrary strings  *)
(*   Spec           request tasks running the Query* operations against    *)
(*                  the session pool and the graph store                   *)
(*   SpecGraph      the graph assembler and the edge-detail builder        *)
(*                  applied to arbitrary row lists                         *)
(* Strings whose characters matter (identifiers, edge keys) are sequences  *)
(* of one-character strings.                                               *)
(***************************************************************************)
EXTENDS Integers, Sequences, FiniteSets, TLC

(***************************************************************************)
(* Bounds of the model.                                                    *)
(***************************************************************************)
\* longest candidate string handed to the validator
MaxIdLen == 7

\* most rows one result set of the store holds
MaxStoreRows == 2

\* most connectivity rows handed to the graph assembler
MaxRows == 2

\* most connects_to rows handed to the edge detail builder
MaxConns == 3

\* most cells of a record handed to a cell decoder
MaxCells == 2

\* most rows of a result set handed to the row loop
MaxResultRows == 2

\* most connects_to edges in the store of the neighbor lookup
MaxEdges == 3

\* most requests served after startup
MaxServed == 3

\* most rows of the spreadsheet connects_to edges are loaded from
MaxSheetRows == 3

\* rows in the result set of the type lookup
MaxTypeRows == 2

\* elements of a list handed to a list builder
MaxItems == 2

\* rows in the result set of the asset list query
MaxAssetRows == 3

\* largest unfiltered count a caller passes to BuildAssetsList
MaxTotalCount == 3

\* concurrent requests (REQ-200: max 2 concurrent user connections)
NumTasks == 2

VARIABLES
    candidate,      \* validator: the string under test
    verdict,        \* validator: "pending", or the result of ValidateAssetID
    task,           \* executor: per request task, the state of its invocation
    poolOut,        \* executor: sessions handed out by the pool and not released
    rows,           \* assembler: the connectivity rows ([]nebula.AssetRow)
    cyGraph,        \* assembler: NoGraph, or the CyGraph BuildGraph returned
    connections,    \* builder: the connects_to rows ([]map[string]interface{})
    edgeDetail,     \* builder: NoResponse, or the EdgeDetailResponse returned
    record,         \* decoder: the cells of one record (*nebula.Record)
    cellOut,        \* decoder: the column decoded last, its index and its value
    resultSet,      \* decoder: the rows of a result set (*nebula.ResultSet)
    decoded,        \* decoder: NotDecoded, or the rows the row loop produced
    storeEdges,     \* neighbors: the connects_to edges in the store
    lookup,         \* neighbors: the state of one neighbor lookup
    req,            \* handlers: per request task, the state of its GraphHandler
    boot,           \* startup: the state of main
    sheet,          \* loader: the connection rows of the spreadsheet
    loaded,         \* loader: NotLoaded, or the ranked rows and the edges stored
    typeSet,        \* types: the rows of the LOOKUP ON Asset_Type result set
    typeList,       \* types: NoTypes, or the maps returned and the response built
    built,          \* builders: NotBuilt, or the builder called and its response
    assetSet,       \* asset list: the rows of the REQ-021 result set
    listed,         \* asset list: NotListed, or the filters and the items returned
    call,           \* serving: per request task, the state of one graph request
    sessionsOut     \* serving: sessions handed out by the pool and not released

vars == <<candidate, verdict, task, poolOut, rows, cyGraph, connections,
          edgeDetail, record, cellOut, resultSet, decoded,
          storeEdges, lookup, req, boot, sheet, loaded, typeSet, typeList,
          built, assetSet, listed, call, sessionsOut>>
validatorVars == <<candidate, verdict>>
executorVars == <<task, poolOut>>
assemblerVars == <<rows, cyGraph>>
builderVars == <<connections, edgeDetail>>
decoderVars == <<record, cellOut, resultSet, decoded>>
neighborVars == <<storeEdges, lookup>>
handlerVars == <<req>>
startupVars == <<boot>>
loaderVars == <<sheet, loaded>>
typeVars == <<typeSet, typeList>>
listVars == <<built>>
filterVars == <<assetSet, listed>>
serveVars == <<call, sessionsOut>>

\* the variables of the decoding, lookup, serving, startup and loading machines
secondVars == <<decoderVars, neighborVars, handlerVars, startupVars, loaderVars>>

\* the variables of the machines of the list endpoints
moreVars == <<typeVars, listVars, filterVars, serveVars>>

\* the variables of every machine but those of the first half of the module
restVars == <<secondVars, moreVars>>

\* the variables of the machines of the first half of the module
coreVars == <<validatorVars, executorVars, assemblerVars, builderVars>>

(***************************************************************************)
(* Identifier validator: regexp `^A\d{4,5}$` (RE2 syntax, no flags).       *)
(***************************************************************************)
\* \d of RE2: the ASCII decimal digits
Digit == {"0", "1", "2", "3", "4", "5", "6", "7", "8", "9"}

\* characters the candidate strings are built from
Alphabet == {"A", "a", "0", "9", "x", " "}

\* a fold-case match (flag i): "a" is taken for "A"
PatternStep_FoldCase(q, c) ==
    IF q = 0 /\ c \in {"A", "a"} THEN 1
    ELSE IF q >= 1 /\ q <= 5 /\ c \in Digit THEN q + 1
    ELSE -1

\* One step of the automaton of ^A\d{4,5}$ : state 0 is the anchored start,
\* states 1..6 count the characters matched, -1 is the dead state.
PatternStep(q, c) ==
    IF q = 0 /\ c = "A" THEN 1
    ELSE IF q >= 1 /\ q <= 5 /\ c \in Digit THEN q + 1
    ELSE -1

RECURSIVE PatternRun(_, _, _)
PatternRun(q, s, i) ==
    IF i > Len(s) THEN q ELSE PatternRun(PatternStep(q, s[i]), s, i + 1)

\* the pattern without its closing `$`: a well-formed prefix is enough
ValidateAssetID_Unanchored(id) ==
    \E k \in 0..Len(id) : PatternRun(0, SubSeq(id, 1, k), 1) \in {5, 6}

\* assetIDPattern.MatchString(id): `$` without the m flag is the end of text
ValidateAssetID(id) == PatternRun(0, id, 1) \in {5, 6}

(***************************************************************************)
(* Query executor: the Query* operations of internal/nebula/client.go run  *)
(* by concurrent request tasks against the shared session pool.            *)
(***************************************************************************)
Tasks == 1..NumTasks

\* the operations taking a path identifier
IdOps == {"QueryAssetDetail", "QueryNeighbors"}

\* the operations returning every decodable row
ListOps == {"QueryAssets", "QueryAssetsWithDetails", "QueryNeighbors", "QueryAssetTypes"}

OpNames == IdOps \cup ListOps

\* path identifiers requests arrive with: "A0001", "A00001", "A1", `A0001"`, ""
RequestIds ==
    { <<"A", "0", "0", "0", "1">>,
      <<"A", "0", "0", "0", "0", "1">>,
      <<"A", "1">>,
      <<"A", "0", "0", "0", "1", "\"">>,
      <<>> }

\* outcomes of one call to the store: a transport error (err != nil), a
\* response the store marks as failed (!IsSucceed()), or success
StoreOutcomes == {"ok", "err", "rejected"}

\* a task with no request in hand
IdleTask ==
    [ op       |-> "none",
      pc       |-> "idle",
      id       |-> <<>>,
      calls    |-> <<>>,      \* calls made to the pool and the session, in order
      get      |-> "none",    \* what pool.GetSession answered
      use      |-> "none",    \* what session.Execute(USE ...) answered
      exec     |-> "none",    \* what session.Execute(query) answered
      nrows    |-> 0,         \* resultSet.GetRowSize()
      readable |-> {},        \* rows GetRowValuesByIndex returns without error
      err      |-> "none",    \* the error returned to the caller
      nerr     |-> 0,         \* error returns made by this invocation
      result   |-> "none",    \* "nil" or "value" once returned
      nout     |-> 0 ]        \* records in the returned value

CountCalls(calls, c) == Cardinality({i \in DOMAIN calls : calls[i] = c})

\* the task holds a session: acquired and not yet released
Holds(r) == r.get = "ok" /\ CountCalls(r.calls, "Release") = 0

\* session.Release()
Release(r) == [r EXCEPT !.calls = Append(@, "Release")]

\* return nil, err from inside a Query* function: the deferred Release runs
ReturnError(r, e) ==
    [Release(r) EXCEPT !.pc = "done", !.err = e, !.nerr = @ + 1, !.result = "nil"]

\* a value return that leaves the session with the caller
ReturnValue_KeepSession(r, n) ==
    [r EXCEPT !.pc = "done", !.result = "value", !.nout = n]

\* return value, nil from inside a Query* function: the deferred Release runs
ReturnValue(r, n) ==
    [Release(r) EXCEPT !.pc = "done", !.result = "value", !.nout = n]

\* a request arrives and the operation is entered
StartStep(op, id) ==
    [IdleTask EXCEPT !.op = op, !.id = id,
                     !.pc = IF op \in IdOps THEN "validate" ELSE "getsession"]

\* if !ValidateAssetID(assetID) { return nil, "invalid asset ID format" }
ValidateStep(r) ==
    IF ValidateAssetID(r.id)
    THEN [r EXCEPT !.pc = "getsession"]
    ELSE [r EXCEPT !.pc = "done", !.err = "InvalidFormat", !.nerr = @ + 1,
                   !.result = "nil"]

\* openSession: pool.GetSession
GetSessionStep(r, ok) ==
    IF ok
    THEN [r EXCEPT !.calls = Append(@, "GetSession"), !.get = "ok", !.pc = "use"]
    ELSE [r EXCEPT !.calls = Append(@, "GetSession"), !.get = "err",
                   !.pc = "done", !.err = "GetSessionFailed", !.nerr = @ + 1,
                   !.result = "nil"]

\* the error return without the session.Release() before it
UseFailure_NoRelease(r, e) ==
    [r EXCEPT !.pc = "done", !.err = e, !.nerr = @ + 1, !.result = "nil"]

\* the error return of openSession after a failed USE: session.Release() first
UseFailure(r, e) ==
    [Release(r) EXCEPT !.pc = "done", !.err = e, !.nerr = @ + 1, !.result = "nil"]

\* only err is checked after USE, not res.IsSucceed()
UseStep_IgnoreRejected(r, outcome) ==
    LET called == [r EXCEPT !.calls = Append(@, "Execute:USE"), !.use = outcome]
    IN  IF outcome = "err"
        THEN [Release(called) EXCEPT !.pc = "done", !.err = "UseFailed",
                                     !.nerr = @ + 1, !.result = "nil"]
        ELSE [called EXCEPT !.pc = "execute"]

\* openSession: session.Execute("USE <space>;") and the two checks after it
UseStep(r, outcome) ==
    LET called == [r EXCEPT !.calls = Append(@, "Execute:USE"), !.use = outcome]
    IN  CASE outcome = "err" -> UseFailure(called, "UseFailed")
          [] outcome = "rejected" -> UseFailure(called, "UseRejected")
          [] OTHER -> [called EXCEPT !.pc = "execute"]

\* a failed query is skipped and the (empty) list returned with a nil error
ExecuteStep_Swallow(r, outcome, n, readable) ==
    LET called == [r EXCEPT !.calls = Append(@, "Execute:query"), !.exec = outcome]
    IN  IF outcome # "ok"
        THEN [Release(called) EXCEPT !.pc = "done", !.result = "value", !.nout = 0]
        ELSE [called EXCEPT !.pc = "decode", !.nrows = n, !.readable = readable]

\* a transport error is answered by executing the query once more
ExecuteStep_Retry(r, outcome, n, readable) ==
    LET called == [r EXCEPT !.calls = Append(@, "Execute:query"), !.exec = outcome]
    IN  CASE outcome = "err" /\ Len(r.calls) < 3 -> [called EXCEPT !.pc = "execute"]
          [] outcome # "ok" ->
               [Release(called) EXCEPT !.pc = "done", !.nerr = @ + 1, !.result = "nil",
                    !.err = IF outcome = "err" THEN "ExecFailed" ELSE "QueryRejected"]
          [] OTHER -> [called EXCEPT !.pc = "decode", !.nrows = n, !.readable = readable]

\* session.Execute(query) and the two checks that follow it
ExecuteStep(r, outcome, n, readable) ==
    LET called == [r EXCEPT !.calls = Append(@, "Execute:query"), !.exec = outcome]
    IN  CASE outcome = "err" -> ReturnError(called, "ExecFailed")
          [] outcome = "rejected" -> ReturnError(called, "QueryRejected")
          [] OTHER -> [called EXCEPT !.pc = "decode", !.nrows = n, !.readable = readable]

\* a detail lookup that goes on to the first row when the result set is empty
DetailDecodeStep_NoRowCheck(r) ==
    IF 1 \notin r.readable THEN ReturnError(r, "ReadFailed")
    ELSE ReturnValue(r, 1)

\* QueryAssetDetail after a successful query: zero rows, first row, decode
DetailDecodeStep(r) ==
    IF r.nrows = 0 THEN ReturnError(r, "NotFound")
    ELSE IF 1 \notin r.readable THEN ReturnError(r, "ReadFailed")
    ELSE ReturnValue(r, 1)

\* the row loop of the list operations: an unreadable row is skipped
ListDecodeStep(r) == ReturnValue(r, Cardinality(r.readable))

DecodeStep(r) ==
    IF r.op = "QueryAssetDetail" THEN DetailDecodeStep(r) ELSE ListDecodeStep(r)

\* the HTTP status the asset detail endpoint answers a finished lookup with:
\* 400 for a malformed identifier, 404 for zero rows, 500 for every other
\* error, 200 for a detail
AssetDetailStatus(r) ==
    CASE r.err = "InvalidFormat" -> 400
      [] r.err = "NotFound" -> 404
      [] r.err # "none" -> 500
      [] OTHER -> 200

\* the pool's count after a task moved from record r to record q
PoolAfter(n, r, q) ==
    n + (IF r.get = "none" /\ q.get = "ok" THEN 1 ELSE 0)
      - (CountCalls(q.calls, "Release") - CountCalls(r.calls, "Release"))

Start(t) ==
    /\ task[t].pc = "idle"
    /\ \E op \in OpNames :
         \E id \in (IF op \in IdOps THEN RequestIds ELSE {<<>>}) :
            task' = [task EXCEPT ![t] = StartStep(op, id)]
    /\ UNCHANGED <<poolOut, validatorVars, assemblerVars, builderVars, restVars>>

Validate(t) ==
    /\ task[t].pc = "validate"
    /\ task' = [task EXCEPT ![t] = ValidateStep(task[t])]
    /\ UNCHANGED <<poolOut, validatorVars, assemblerVars, builderVars, restVars>>

\* a session is asked for under a lock that is held until the session is
\* released: the caller waits while another task holds one
GetSession_OneAtATime(t) ==
    /\ task[t].pc = "getsession"
    /\ poolOut = 0
    /\ \E ok \in BOOLEAN :
         /\ task' = [task EXCEPT ![t] = GetSessionStep(task[t], ok)]
         /\ poolOut' = PoolAfter(poolOut, task[t], task'[t])
    /\ UNCHANGED <<validatorVars, assemblerVars, builderVars, restVars>>

GetSession(t) ==
    /\ task[t].pc = "getsession"
    /\ \E ok \in BOOLEAN :
         /\ task' = [task EXCEPT ![t] = GetSessionStep(task[t], ok)]
         /\ poolOut' = PoolAfter(poolOut, task[t], task'[t])
    /\ UNCHANGED <<validatorVars, assemblerVars, builderVars, restVars>>

Use(t) ==
    /\ task[t].pc = "use"
    /\ \E outcome \in StoreOutcomes :
         /\ task' = [task EXCEPT ![t] = UseStep(task[t], outcome)]
         /\ poolOut' = PoolAfter(poolOut, task[t], task'[t])
    /\ UNCHANGED <<validatorVars, assemblerVars, builderVars, restVars>>

Execute(t) ==
    /\ task[t].pc = "execute"
    /\ \E outcome \in StoreOutcomes :
         \E n \in (IF outcome = "ok" THEN 0..MaxStoreRows ELSE {0}) :
            \E readable \in SUBSET (1..n) :
               /\ task' = [task EXCEPT ![t] = ExecuteStep(task[t], outcome, n, readable)]
               /\ poolOut' = PoolAfter(poolOut, task[t], task'[t])
    /\ UNCHANGED <<validatorVars, assemblerVars, builderVars, restVars>>

Decode(t) ==
    /\ task[t].pc = "decode"
    /\ task' = [task EXCEPT ![t] = DecodeStep(task[t])]
    /\ poolOut' = PoolAfter(poolOut, task[t], task'[t])
    /\ UNCHANGED <<validatorVars, assemblerVars, builderVars, restVars>>

\* the caller has taken the operation's return values; the task is free again
Complete(t) ==
    /\ task[t].pc = "done"
    /\ task' = [task EXCEPT ![t] = IdleTask]
    /\ UNCHANGED <<poolOut, validatorVars, assemblerVars, builderVars, restVars>>

(***************************************************************************)
(* Graph assembler: BuildGraph of internal/graph/model.go.                 *)
(***************************************************************************)
\* identifiers the rows carry: "" (a null cell decoded by safeString),
\* "A0001", "A0002" and "A0001|A0001"
GraphIds ==
    { <<>>,
      <<"A", "0", "0", "0", "1">>,
      <<"A", "0", "0", "0", "2">>,
      <<"A", "0", "0", "0", "1", "|", "A", "0", "0", "0", "1">> }

\* the attributes one endpoint of a row carries: a fully described asset named
\* "CRM", and an asset whose cells all decoded to their defaults
EndpointAttrs ==
    { [Name |-> <<"C", "R", "M">>, AssetType |-> "Server", IsEntrance |-> TRUE,
       IsTarget |-> TRUE, Priority |-> 1, HasVulnerability |-> TRUE],
      [Name |-> <<>>, AssetType |-> "", IsEntrance |-> FALSE,
       IsTarget |-> FALSE, Priority |-> 4, HasVulnerability |-> FALSE] }

\* nebula.AssetRow
AssetRow(src, sa, dst, da) ==
    [ SrcAssetID          |-> src,
      SrcAssetName        |-> sa.Name,
      SrcIsEntrance       |-> sa.IsEntrance,
      SrcIsTarget         |-> sa.IsTarget,
      SrcPriority         |-> sa.Priority,
      SrcHasVulnerability |-> sa.HasVulnerability,
      SrcAssetType        |-> sa.AssetType,
      DstAssetID          |-> dst,
      DstAssetName        |-> da.Name,
      DstIsEntrance       |-> da.IsEntrance,
      DstIsTarget         |-> da.IsTarget,
      DstPriority         |-> da.Priority,
      DstHasVulnerability |-> da.HasVulnerability,
      DstAssetType        |-> da.AssetType ]

\* the rows a result set may hold: the two endpoints of a row differ in their
\* attributes, so that every identifier can occur with either attribute set
RowUniverse ==
    { AssetRow(src, at[1], dst, at[2]) :
        src \in GraphIds, dst \in GraphIds,
        at \in { p \in EndpointAttrs \X EndpointAttrs : p[1] # p[2] } }

\* the value of cyGraph before BuildGraph has returned
NoGraph == [Nodes |-> <<>>, Edges |-> <<>>, built |-> FALSE]

\* nodeInfo
NodeInfo(name, assetType, entrance, target, prio, vuln) ==
    [ Name |-> name, AssetType |-> assetType, IsEntrance |-> entrance,
      IsTarget |-> target, Priority |-> prio, HasVulnerability |-> vuln ]

\* addNode without the guard on the empty identifier
AddNode_KeepEmpty(nodeSet, id, name, assetType, entrance, target, prio, vuln) ==
    IF id \in DOMAIN nodeSet THEN nodeSet
    ELSE nodeSet @@ (id :> NodeInfo(name, assetType, entrance, target, prio, vuln))

\* addNode storing every occurrence over the one before
AddNode_LastSeenWins(nodeSet, id, name, assetType, entrance, target, prio, vuln) ==
    IF id = <<>> THEN nodeSet
    ELSE (id :> NodeInfo(name, assetType, entrance, target, prio, vuln)) @@ nodeSet

\* the closure addNode, with the map nodeSet passed through
AddNode(nodeSet, id, name, assetType, entrance, target, prio, vuln) ==
    IF id = <<>> THEN nodeSet
    ELSE IF id \in DOMAIN nodeSet THEN nodeSet
    ELSE nodeSet @@ (id :> NodeInfo(name, assetType, entrance, target, prio, vuln))

\* one iteration of the first loop: the source of the row, then its destination
AddRowNodes(nodeSet, row) ==
    AddNode(AddNode(nodeSet, row.SrcAssetID, row.SrcAssetName, row.SrcAssetType,
                    row.SrcIsEntrance, row.SrcIsTarget, row.SrcPriority,
                    row.SrcHasVulnerability),
            row.DstAssetID, row.DstAssetName, row.DstAssetType,
            row.DstIsEntrance, row.DstIsTarget, row.DstPriority,
            row.DstHasVulnerability)

\* for _, row := range rows { addNode(src...); addNode(dst...) }, from row i on
RECURSIVE CollectNodes(_, _, _)
CollectNodes(rs, i, nodeSet) ==
    IF i > Len(rs) THEN nodeSet
    ELSE CollectNodes(rs, i + 1, AddRowNodes(nodeSet, rs[i]))

\* the CyNode of one map entry: the label is the name, or the id without one
NodeOf(id, info) ==
    [ ID |-> id,
      Label |-> IF info.Name # <<>> THEN info.Name ELSE id,
      AssetType |-> info.AssetType,
      IsEntrance |-> info.IsEntrance,
      IsTarget |-> info.IsTarget,
      Priority |-> info.Priority,
      HasVulnerability |-> info.HasVulnerability ]

\* the orders in which `range nodeSet` may visit the keys (unspecified in Go)
RangeOrders(nodeSet) ==
    { o \in [1..Cardinality(DOMAIN nodeSet) -> DOMAIN nodeSet] :
        \A i, j \in DOMAIN o : i # j => o[i] # o[j] }

\* for id, info := range nodeSet { nodes = append(nodes, ...) }
NodeList(nodeSet, order) ==
    [i \in 1..Cardinality(DOMAIN nodeSet) |-> NodeOf(order[i], nodeSet[order[i]])]

\* key := row.SrcAssetID + "|" + row.DstAssetID
EdgeKey(row) == row.SrcAssetID \o <<"|">> \o row.DstAssetID

\* an edge loop that puts each new edge in front of the ones before it
RECURSIVE CollectEdges_NewestFirst(_, _, _, _)
CollectEdges_NewestFirst(rs, i, edgeSeen, edges) ==
    IF i > Len(rs) THEN edges
    ELSE IF EdgeKey(rs[i]) \in edgeSeen
         THEN CollectEdges_NewestFirst(rs, i + 1, edgeSeen, edges)
         ELSE CollectEdges_NewestFirst(rs, i + 1, edgeSeen \cup {EdgeKey(rs[i])},
                           <<[Source |-> rs[i].SrcAssetID,
                              Target |-> rs[i].DstAssetID]>> \o edges)

\* the edge loop from row i on: edgeSeen is the set of keys mapped to true
RECURSIVE CollectEdges(_, _, _, _)
CollectEdges(rs, i, edgeSeen, edges) ==
    IF i > Len(rs) THEN edges
    ELSE IF EdgeKey(rs[i]) \in edgeSeen
         THEN CollectEdges(rs, i + 1, edgeSeen, edges)
         ELSE CollectEdges(rs, i + 1, edgeSeen \cup {EdgeKey(rs[i])},
                           Append(edges, [Source |-> rs[i].SrcAssetID,
                                          Target |-> rs[i].DstAssetID]))

\* BuildGraph(rows), with the order in which the node map is ranged over
BuildGraph(rs, order) ==
    [ Nodes |-> NodeList(CollectNodes(rs, 1, <<>>), order),
      Edges |-> CollectEdges(rs, 1, {}, <<>>),
      built |-> TRUE ]

\* QueryAssets returned one more row
AddRow ==
    /\ ~cyGraph.built
    /\ Len(rows) < MaxRows
    /\ \E row \in RowUniverse : rows' = Append(rows, row)
    /\ UNCHANGED <<cyGraph, validatorVars, executorVars, builderVars, restVars>>

\* cyGraph := graph.BuildGraph(rows)
RunBuildGraph ==
    /\ ~cyGraph.built
    /\ \E order \in RangeOrders(CollectNodes(rows, 1, <<>>)) :
          cyGraph' = BuildGraph(rows, order)
    /\ UNCHANGED <<rows, validatorVars, executorVars, builderVars, restVars>>

AssemblerIdle ==
    /\ rows = <<>>
    /\ cyGraph = NoGraph

AssemblerNext == AddRow \/ RunBuildGraph

(***************************************************************************)
(* Response builders: BuildEdgeDetailResponse of internal/graph/model.go.  *)
(***************************************************************************)
\* interface{} values: a Go string, and a value of another dynamic type
StringValue(s) == [type |-> "string", val |-> s]
IntValue(n) == [type |-> "int", val |-> n]

\* mapStr: the string under the key, "" when missing or not a string
mapStr(m, key) ==
    IF key \in DOMAIN m
       THEN IF m[key].type = "string" THEN m[key].val ELSE ""
       ELSE ""

\* the maps one connects_to row may decode to: protocol and port as strings,
\* a port of another type, and a row without the port key
ConnectionUniverse ==
    { [connection_protocol |-> StringValue(proto), connection_port |-> port] :
        proto \in {"TCP", "UDP"},
        port \in {StringValue("443"), StringValue("80"), IntValue(443)} }
    \cup { [connection_protocol |-> StringValue(proto)] : proto \in {"TCP", "UDP"} }

\* the asset detail maps of the two endpoints: a found asset, and an empty map
DetailUniverse ==
    { [asset_id |-> StringValue("A0001"), asset_name |-> StringValue("CRM"),
       asset_description |-> StringValue("customer records")],
      <<>> }

\* the value of edgeDetail before BuildEdgeDetailResponse has returned
NoResponse ==
    [Source |-> <<>>, Target |-> <<>>, Connections |-> <<>>, Total |-> 0,
     built |-> FALSE]

\* EdgeConnection{...} of one row
EdgeConnection(c) ==
    [ ConnectionProtocol |-> mapStr(c, "connection_protocol"),
      ConnectionPort     |-> mapStr(c, "connection_port") ]

\* EdgeAssetSummary{...} of one detail map
EdgeAssetSummary(detail) ==
    [ AssetID          |-> mapStr(detail, "asset_id"),
      AssetName        |-> mapStr(detail, "asset_name"),
      AssetDescription |-> mapStr(detail, "asset_description") ]

\* a builder that drops a row equal in protocol and port to an earlier one
RECURSIVE AppendConns_Merge(_, _, _)
AppendConns_Merge(cs, i, conns) ==
    IF i > Len(cs) THEN conns
    ELSE IF \E j \in DOMAIN conns : conns[j] = EdgeConnection(cs[i])
         THEN AppendConns_Merge(cs, i + 1, conns)
         ELSE AppendConns_Merge(cs, i + 1, Append(conns, EdgeConnection(cs[i])))

\* for _, c := range connections { conns = append(conns, ...) }, from row i on
RECURSIVE AppendConns(_, _, _)
AppendConns(cs, i, conns) ==
    IF i > Len(cs) THEN conns
    ELSE AppendConns(cs, i + 1, Append(conns, EdgeConnection(cs[i])))

\* BuildEdgeDetailResponse(srcDetail, dstDetail, connections)
BuildEdgeDetailResponse(srcDetail, dstDetail, cs) ==
    LET conns == AppendConns(cs, 1, <<>>)
    IN  [ Source      |-> EdgeAssetSummary(srcDetail),
          Target      |-> EdgeAssetSummary(dstDetail),
          Connections |-> conns,
          Total       |-> Len(conns),
          built       |-> TRUE ]

\* the edge query returned one more connects_to row
AddConnection ==
    /\ ~edgeDetail.built
    /\ Len(connections) < MaxConns
    /\ \E c \in ConnectionUniverse : connections' = Append(connections, c)
    /\ UNCHANGED <<edgeDetail, validatorVars, executorVars, assemblerVars, restVars>>

\* resp := graph.BuildEdgeDetailResponse(srcDetail, dstDetail, connections)
RunBuildEdgeDetail ==
    /\ ~edgeDetail.built
    /\ \E srcDetail \in DetailUniverse, dstDetail \in DetailUniverse :
          edgeDetail' = BuildEdgeDetailResponse(srcDetail, dstDetail, connections)
    /\ UNCHANGED <<connections, validatorVars, executorVars, assemblerVars, restVars>>

BuilderIdle ==
    /\ connections = <<>>
    /\ edgeDetail = NoResponse

BuilderNext == AddConnection \/ RunBuildEdgeDetail

(***************************************************************************)
(* Cell and row decoding: safeString, safeBool, safeInt and the row loop   *)
(* of QueryAssets in internal/nebula/client.go.                            *)
(***************************************************************************)
\* the values a cell of a record may hold (nebula.ValueWrapper)
NullCell == [type |-> "null", val |-> "null"]
StringCell(s) == [type |-> "string", val |-> s]
BoolCell(b) == [type |-> "bool", val |-> b]
IntCell(n) == [type |-> "int", val |-> n]

CellUniverse ==
    { NullCell, StringCell("A0001"), StringCell(""), BoolCell(TRUE),
      BoolCell(FALSE), IntCell(0), IntCell(1), IntCell(10) }

\* record.GetValueByIndex(idx) returns no error: idx counts from 0
HasIndex(rec, idx) == idx >= 0 /\ idx < Len(rec)

\* safeString
safeString(rec, idx) ==
    IF ~HasIndex(rec, idx) THEN ""
    ELSE IF rec[idx + 1].type # "string" THEN ""
    ELSE rec[idx + 1].val

\* safeBool
safeBool(rec, idx) ==
    IF ~HasIndex(rec, idx) THEN FALSE
    ELSE IF rec[idx + 1].type # "bool" THEN FALSE
    ELSE rec[idx + 1].val

\* an integer decoder that answers 0 for every cell it cannot read
safeInt_ZeroDefault(rec, idx, def) ==
    IF ~HasIndex(rec, idx) THEN 0
    ELSE IF rec[idx + 1].type # "int" THEN 0
    ELSE rec[idx + 1].val

\* safeInt: int(n) keeps the value of every int64 on a 64-bit build
safeInt(rec, idx, def) ==
    IF ~HasIndex(rec, idx) THEN def
    ELSE IF rec[idx + 1].type # "int" THEN def
    ELSE rec[idx + 1].val

\* the columns of QueryAssetDetail decoded by one call each
DetailColumns == {"asset_name", "is_entrance", "priority", "ttb"}

\* the call QueryAssetDetail makes for a column, at index idx
DecodeColumn(column, rec, idx) ==
    CASE column = "asset_name"  -> safeString(rec, idx)
      [] column = "is_entrance" -> safeBool(rec, idx)
      [] column = "priority"    -> safeInt(rec, idx, 4)
      [] column = "ttb"         -> safeInt(rec, idx, 10)

NoCell == [column |-> "none", idx |-> 0, value |-> "none"]

\* the store put one more cell into the record
AppendCell ==
    /\ cellOut = NoCell
    /\ Len(record) < MaxCells
    /\ \E c \in CellUniverse : record' = Append(record, c)
    /\ UNCHANGED <<cellOut, resultSet, decoded, coreVars, neighborVars, handlerVars, startupVars, loaderVars, moreVars>>

\* one column of the record is decoded
DecodeCell ==
    /\ cellOut = NoCell
    /\ \E column \in DetailColumns, idx \in 0..MaxCells :
          cellOut' = [column |-> column, idx |-> idx,
                      value |-> DecodeColumn(column, record, idx)]
    /\ UNCHANGED <<record, resultSet, decoded, coreVars, neighborVars, handlerVars, startupVars, loaderVars, moreVars>>

CellsNext == AppendCell \/ DecodeCell

\* a record of the REQ-020 query with every cell present and of its type
GoodRecord ==
    << StringCell("A0001"), StringCell("CRM"), BoolCell(TRUE), BoolCell(FALSE),
       IntCell(1), BoolCell(TRUE), StringCell("Server"),
       StringCell("A0002"), StringCell("DB"), BoolCell(FALSE), BoolCell(TRUE),
       IntCell(2), BoolCell(FALSE), StringCell("Database") >>

\* the record with the cells at the given positions replaced
Damaged(rec, positions, cell) ==
    [i \in DOMAIN rec |-> IF i \in positions THEN cell ELSE rec[i]]

\* the records a row may hold: the good record, records with cells replaced
\* by a null, an integer or a string, and records that are too short
RecordUniverse ==
    {GoodRecord}
    \cup { Damaged(GoodRecord, positions, cell) :
             positions \in {{1}, {5, 12}, 1..14},
             cell \in {NullCell, IntCell(7), StringCell("x")} }
    \cup { SubSeq(GoodRecord, 1, k) : k \in {0, 7} }

\* the AssetRow{...} literal of the row loop
DecodeAssetRow(rec) ==
    [ SrcAssetID          |-> safeString(rec, 0),
      SrcAssetName        |-> safeString(rec, 1),
      SrcIsEntrance       |-> safeBool(rec, 2),
      SrcIsTarget         |-> safeBool(rec, 3),
      SrcPriority         |-> safeInt(rec, 4, 4),
      SrcHasVulnerability |-> safeBool(rec, 5),
      SrcAssetType        |-> safeString(rec, 6),
      DstAssetID          |-> safeString(rec, 7),
      DstAssetName        |-> safeString(rec, 8),
      DstIsEntrance       |-> safeBool(rec, 9),
      DstIsTarget         |-> safeBool(rec, 10),
      DstPriority         |-> safeInt(rec, 11, 4),
      DstHasVulnerability |-> safeBool(rec, 12),
      DstAssetType        |-> safeString(rec, 13) ]

\* a cell the loop reads is there and of the type read from it
CellReadable(rec, idx, type) == HasIndex(rec, idx) /\ rec[idx + 1].type = type

\* a row loop that gives up on a row when one of its identifier cells cannot
\* be read as a string
RECURSIVE DecodeRows_SkipBadRow(_, _, _)
DecodeRows_SkipBadRow(rs, i, out) ==
    IF i > Len(rs) THEN out
    ELSE IF ~rs[i].retrievable THEN DecodeRows_SkipBadRow(rs, i + 1, out)
    ELSE IF ~CellReadable(rs[i].cells, 0, "string")
            \/ ~CellReadable(rs[i].cells, 7, "string")
         THEN DecodeRows_SkipBadRow(rs, i + 1, out)
         ELSE DecodeRows_SkipBadRow(rs, i + 1, Append(out, DecodeAssetRow(rs[i].cells)))

\* for i := 0; i < resultSet.GetRowSize(); i++ { ... }, from row i on: a row
\* GetRowValuesByIndex cannot return is skipped, every other row is appended
RECURSIVE DecodeRows(_, _, _)
DecodeRows(rs, i, out) ==
    IF i > Len(rs) THEN out
    ELSE IF ~rs[i].retrievable THEN DecodeRows(rs, i + 1, out)
    ELSE DecodeRows(rs, i + 1, Append(out, DecodeAssetRow(rs[i].cells)))

NotDecoded == [done |-> FALSE, rows |-> <<>>]

\* the store put one more row into the result set
AppendResultRow ==
    /\ ~decoded.done
    /\ Len(resultSet) < MaxResultRows
    /\ \E cells \in RecordUniverse, retrievable \in BOOLEAN :
          resultSet' = Append(resultSet,
                              [cells |-> cells, retrievable |-> retrievable])
    /\ UNCHANGED <<record, cellOut, decoded, coreVars, neighborVars, handlerVars, startupVars, loaderVars, moreVars>>

\* the row loop of QueryAssets runs over the result set
RunDecodeRows ==
    /\ ~decoded.done
    /\ decoded' = [done |-> TRUE, rows |-> DecodeRows(resultSet, 1, <<>>)]
    /\ UNCHANGED <<record, cellOut, resultSet, coreVars, neighborVars, handlerVars, startupVars, loaderVars, moreVars>>

RowsNext == AppendResultRow \/ RunDecodeRows

DecoderIdle ==
    /\ record = <<>>
    /\ cellOut = NoCell
    /\ resultSet = <<>>
    /\ decoded = NotDecoded

(***************************************************************************)
(* Neighbor lookup: QueryNeighbors of internal/nebula/client.go and        *)
(* BuildNeighborsList of internal/graph/model.go.                          *)
(***************************************************************************)
\* the vertices connects_to storeEdges run between, and the storeEdges the store may
\* hold: (source, rank, destination) identifies an edge
EdgeVertices == {"A0001", "A0002"}
EdgeUniverse ==
    { [src |-> a, dst |-> b, rank |-> k] :
        a \in EdgeVertices, b \in EdgeVertices, k \in {0, 1} }

\* the identifiers looked up: "A0003" has no edge in any store
LookupIds == {"A0001", "A0003"}

\* GO FROM "x" OVER connects_to YIELD dst(edge), "outbound"
OutboundRows(es, x) ==
    { <<StringCell(e.dst), StringCell("outbound")>> : e \in {f \in es : f.src = x} }

\* the reverse traversal yielding the destination of the edge, not its source
InboundRows_Dst(es, x) ==
    { <<StringCell(e.dst), StringCell("inbound")>> : e \in {f \in es : f.dst = x} }

\* GO FROM "x" OVER connects_to REVERSELY YIELD src(edge), "inbound"
InboundRows(es, x) ==
    { <<StringCell(e.src), StringCell("inbound")>> : e \in {f \in es : f.dst = x} }

\* ... UNION ...: the distinct rows of the two traversals
NeighborRows(es, x) == OutboundRows(es, x) \cup InboundRows(es, x)

\* the orders in which the store may return the rows of a set
RowOrders(rowSet) ==
    { o \in [1..Cardinality(rowSet) -> rowSet] :
        \A i, j \in DOMAIN o : i # j => o[i] # o[j] }

\* a Go slice: nil, or allocated with the elements it holds
NilSlice == [isNil |-> TRUE, items |-> <<>>]
MakeSlice == [isNil |-> FALSE, items |-> <<>>]
AppendSlice(sl, x) == [isNil |-> FALSE, items |-> Append(sl.items, x)]

\* the row loop of QueryNeighbors from row i on: every row is retrievable
RECURSIVE DecodeNeighbors(_, _, _)
DecodeNeighbors(rs, i, neighbors) ==
    IF i > Len(rs) THEN neighbors
    ELSE DecodeNeighbors(rs, i + 1,
            AppendSlice(neighbors,
                [neighbor_id |-> StringValue(safeString(rs[i], 0)),
                 direction   |-> StringValue(safeString(rs[i], 1))]))

\* neighbors := make([]map[string]interface{}, 0, resultSet.GetRowSize())
\* and the loop over the rows
QueryNeighborsResult(rs) == DecodeNeighbors(rs, 1, MakeSlice)

\* a list declared without make: nil until the first append
NewNeighborList_Nil == NilSlice

\* neighborList := make([]Neighbor, 0, len(neighbors))
NewNeighborList == MakeSlice

\* the loop of BuildNeighborsList from element i on
RECURSIVE AppendNeighbors(_, _, _)
AppendNeighbors(ns, i, neighborList) ==
    IF i > Len(ns) THEN neighborList
    ELSE AppendNeighbors(ns, i + 1,
            AppendSlice(neighborList,
                [NeighborID |-> mapStr(ns[i], "neighbor_id"),
                 Direction  |-> mapStr(ns[i], "direction")]))

\* BuildNeighborsList(neighbors)
BuildNeighborsList(neighbors) ==
    LET neighborList == AppendNeighbors(neighbors.items, 1, NewNeighborList)
    IN  [Neighbors |-> neighborList, Total |-> Len(neighborList.items)]

NoLookup ==
    [pc |-> "idle", id |-> "", rows |-> <<>>, neighbors |-> NilSlice,
     err |-> "none", resp |-> [Neighbors |-> NilSlice, Total |-> 0]]

\* one more connects_to edge is inserted into the store
InsertEdge ==
    /\ lookup.pc = "idle"
    /\ Cardinality(storeEdges) < MaxEdges
    /\ \E e \in EdgeUniverse \ storeEdges : storeEdges' = storeEdges \cup {e}
    /\ UNCHANGED <<lookup, coreVars, decoderVars, handlerVars, startupVars, loaderVars, moreVars>>

\* neighbors, err := nebula.QueryNeighbors(pool, cfg, assetID), the query
\* succeeding with the rows in some order
RunQueryNeighbors ==
    /\ lookup.pc = "idle"
    /\ \E x \in LookupIds :
         \E order \in RowOrders(NeighborRows(storeEdges, x)) :
            lookup' = [lookup EXCEPT !.pc = "queried", !.id = x, !.rows = order,
                                     !.neighbors = QueryNeighborsResult(order)]
    /\ UNCHANGED <<storeEdges, coreVars, decoderVars, handlerVars, startupVars, loaderVars, moreVars>>

\* resp := graph.BuildNeighborsList(neighbors)
RunBuildNeighborsList ==
    /\ lookup.pc = "queried"
    /\ lookup' = [lookup EXCEPT !.pc = "done",
                                !.resp = BuildNeighborsList(lookup.neighbors)]
    /\ UNCHANGED <<storeEdges, coreVars, decoderVars, handlerVars, startupVars, loaderVars, moreVars>>

NeighborsIdle ==
    /\ storeEdges = {}
    /\ lookup = NoLookup

NeighborsNext == InsertEdge \/ RunQueryNeighbors \/ RunBuildNeighborsList

(***************************************************************************)
(* Graph endpoint: GraphHandler of api/handler.go, one run per request.    *)
(***************************************************************************)
\* the errors QueryAssets returns, with the detail the pool or the store gave
QueryErrors ==
    { "failed to get session: dial tcp 10.0.0.5:9669: connection refused",
      "failed to get session: pool exhausted",
      "failed to USE space: EOF",
      "USE space failed: SpaceNotFound: ESP01",
      "query execution failed: i/o timeout",
      "query failed: SemanticError: `Asset' not found" }

\* the row lists the REQ-020 query may return for the store contents at hand
StoreRowSets ==
    LET a1 == <<"A", "0", "0", "0", "1">>
        a2 == <<"A", "0", "0", "0", "2">>
        full == CHOOSE at \in EndpointAttrs : at.Name # <<>>
        bare == CHOOSE at \in EndpointAttrs : at.Name = <<>>
    IN  { <<>>,
          <<AssetRow(a1, full, a2, bare)>>,
          <<AssetRow(a1, full, a2, bare), AssetRow(a2, full, a1, bare)>>,
          <<AssetRow(a2, full, a1, bare), AssetRow(a1, full, a2, bare)>> }

\* json.Marshal(cyGraph): the fields under the names of their json tags
MarshalGraph(g) ==
    [ nodes |-> [i \in DOMAIN g.Nodes |->
                   [data |-> [id                |-> g.Nodes[i].ID,
                              label             |-> g.Nodes[i].Label,
                              asset_type        |-> g.Nodes[i].AssetType,
                              is_entrance       |-> g.Nodes[i].IsEntrance,
                              is_target         |-> g.Nodes[i].IsTarget,
                              priority          |-> g.Nodes[i].Priority,
                              has_vulnerability |-> g.Nodes[i].HasVulnerability]]],
      edges |-> [i \in DOMAIN g.Edges |->
                   [data |-> [source |-> g.Edges[i].Source,
                              target |-> g.Edges[i].Target]]] ]

\* a handler that answers with the text of the error
QueryFailedResponse_Leak(err) == [status |-> 500, body |-> err]

\* http.Error(w, "Failed to query database", http.StatusInternalServerError)
QueryFailedResponse(err) == [status |-> 500, body |-> "Failed to query database\n"]

\* a handler that has sent the 200 header before it encodes the graph
MarshalFailedResponse_HeaderFirst ==
    [status |-> 200, body |-> "Failed to generate JSON\n"]

\* http.Error(w, "Failed to generate JSON", http.StatusInternalServerError)
MarshalFailedResponse == [status |-> 500, body |-> "Failed to generate JSON\n"]

\* rows kept in one place for all requests: a request that builds while
\* another one holds rows builds from the rows of that one
BuildInput_Shared(rq, t) ==
    IF \E u \in Tasks \ {t} : rq[u].pc \in {"build", "marshal", "write"}
    THEN rq[CHOOSE u \in Tasks \ {t} : rq[u].pc \in {"build", "marshal", "write"}].rows
    ELSE rq[t].rows

\* the argument of graph.BuildGraph(rows): the rows of the request's own query
BuildInput(rq, t) == rq[t].rows

IdleRequest ==
    [ pc      |-> "idle",
      rows    |-> <<>>,       \* rows returned by QueryAssets
      err     |-> "none",     \* err returned by QueryAssets
      jsonErr |-> "none",     \* err returned by json.Marshal
      cyGraph |-> NoGraph,
      status  |-> 0,          \* status written to the client, 0 before any
      body    |-> "none" ]

\* a request for /api/graph arrives
Receive(t) ==
    /\ req[t].pc = "idle"
    /\ req' = [req EXCEPT ![t] = [IdleRequest EXCEPT !.pc = "query"]]
    /\ UNCHANGED <<coreVars, decoderVars, neighborVars, startupVars, loaderVars, moreVars>>

\* rows, err := nebula.QueryAssets(pool, cfg), and the error branch
QueryGraph(t) ==
    /\ req[t].pc = "query"
    /\ \/ \E err \in QueryErrors :
            req' = [req EXCEPT ![t].pc = "done", ![t].err = err,
                               ![t].status = QueryFailedResponse(err).status,
                               ![t].body = QueryFailedResponse(err).body]
       \/ \E rs \in StoreRowSets :
            req' = [req EXCEPT ![t].pc = "build", ![t].rows = rs]
    /\ UNCHANGED <<coreVars, decoderVars, neighborVars, startupVars, loaderVars, moreVars>>

\* cyGraph := graph.BuildGraph(rows)
BuildResponse(t) ==
    /\ req[t].pc = "build"
    /\ \E order \in RangeOrders(CollectNodes(BuildInput(req, t), 1, <<>>)) :
          req' = [req EXCEPT ![t].pc = "marshal",
                             ![t].cyGraph = BuildGraph(BuildInput(req, t), order)]
    /\ UNCHANGED <<coreVars, decoderVars, neighborVars, startupVars, loaderVars, moreVars>>

\* jsonData, err := json.Marshal(cyGraph), and the error branch
MarshalResponse(t) ==
    /\ req[t].pc = "marshal"
    /\ \/ req' = [req EXCEPT ![t].pc = "write",
                             ![t].body = MarshalGraph(req[t].cyGraph)]
       \/ req' = [req EXCEPT ![t].pc = "done",
                             ![t].jsonErr = "json: unsupported value",
                             ![t].status = MarshalFailedResponse.status,
                             ![t].body = MarshalFailedResponse.body]
    /\ UNCHANGED <<coreVars, decoderVars, neighborVars, startupVars, loaderVars, moreVars>>

\* w.WriteHeader(http.StatusOK); w.Write(jsonData)
WriteResponse(t) ==
    /\ req[t].pc = "write"
    /\ req' = [req EXCEPT ![t].pc = "done", ![t].status = 200]
    /\ UNCHANGED <<coreVars, decoderVars, neighborVars, startupVars, loaderVars, moreVars>>

\* the handler has returned; the task takes the next request
Finish(t) ==
    /\ req[t].pc = "done"
    /\ req' = [req EXCEPT ![t] = IdleRequest]
    /\ UNCHANGED <<coreVars, decoderVars, neighborVars, startupVars, loaderVars, moreVars>>

HandlersIdle == req = [t \in Tasks |-> IdleRequest]

HandlersNext ==
    \E t \in Tasks :
        \/ Receive(t)
        \/ QueryGraph(t)
        \/ BuildResponse(t)
        \/ MarshalResponse(t)
        \/ WriteResponse(t)
        \/ Finish(t)

(***************************************************************************)
(* Process start: main (unnamed/part_001) and NewPool of                   *)
(* internal/nebula/client.go.                                              *)
(***************************************************************************)
\* the patterns main registers, in the order of its http.Handle calls
Routes ==
    << "/api/graph", "/api/assets", "/api/asset/", "/api/neighbors/",
       "/api/asset-types", "/" >>

BootStart == [pc |-> "load", pool |-> "none", registered |-> 0, served |-> <<>>]

\* a NewPool that logs the error and hands back the pool it got
NewPoolStep_LogOnly(b, ok) ==
    IF ok THEN [b EXCEPT !.pc = "register", !.pool = "ok"]
    ELSE [b EXCEPT !.pc = "register", !.pool = "failed"]

\* NewPool: nebula.NewConnectionPool, log.Fatalf on its error
NewPoolStep(b, ok) ==
    IF ok THEN [b EXCEPT !.pc = "register", !.pool = "ok"]
    ELSE [b EXCEPT !.pc = "exited", !.pool = "failed"]

\* cfg := config.Load()
LoadConfig ==
    /\ boot.pc = "load"
    /\ boot' = [boot EXCEPT !.pc = "newpool"]
    /\ UNCHANGED <<coreVars, decoderVars, neighborVars, handlerVars, loaderVars, moreVars>>

\* pool := nebula.NewPool(cfg)
NewPool ==
    /\ boot.pc = "newpool"
    /\ \E ok \in BOOLEAN : boot' = NewPoolStep(boot, ok)
    /\ UNCHANGED <<coreVars, decoderVars, neighborVars, handlerVars, loaderVars, moreVars>>

\* the next http.HandleFunc / http.Handle call of main
Register ==
    /\ boot.pc = "register"
    /\ boot.registered < Len(Routes)
    /\ boot' = [boot EXCEPT !.registered = @ + 1]
    /\ UNCHANGED <<coreVars, decoderVars, neighborVars, handlerVars, loaderVars, moreVars>>

\* log.Fatal(http.ListenAndServe(addr, nil)): the server listens, or the call
\* returns an error at once and the process exits
Listen ==
    /\ boot.pc = "register"
    /\ boot.registered = Len(Routes)
    /\ \E ok \in BOOLEAN :
          boot' = [boot EXCEPT !.pc = IF ok THEN "serving" ELSE "exited"]
    /\ UNCHANGED <<coreVars, decoderVars, neighborVars, handlerVars, loaderVars, moreVars>>

\* the server hands a request to the handler registered for its path
Serve ==
    /\ boot.pc = "serving"
    /\ Len(boot.served) < MaxServed
    /\ \E i \in 1..boot.registered :
          boot' = [boot EXCEPT !.served = Append(@, Routes[i])]
    /\ UNCHANGED <<coreVars, decoderVars, neighborVars, handlerVars, loaderVars, moreVars>>

StartupIdle == boot = BootStart

StartupNext == LoadConfig \/ NewPool \/ Register \/ Listen \/ Serve

(***************************************************************************)
(* Bulk load of connects_to edges under the rank assignment convention of  *)
(* Data/ESP01_NebulaGraph_Schema.md (ED006).                               *)
(***************************************************************************)
\* the rows of the spreadsheet: source, target and the protocol of the
\* connection
SheetVertices == {"A0001", "A0002"}
SheetRows ==
    { [src |-> a, dst |-> b, proto |-> pr] :
        a \in SheetVertices, b \in SheetVertices, pr \in {"TCP", "UDP"} }

\* the order on identifiers the sort uses
VertexOrder(v) == IF v = "A0001" THEN 1 ELSE 2

\* (source, target) of row a does not come after that of row b
PairLeq(a, b) ==
    \/ VertexOrder(a.src) < VertexOrder(b.src)
    \/ /\ a.src = b.src
       /\ VertexOrder(a.dst) <= VertexOrder(b.dst)

\* a load that takes the rows in the order of the spreadsheet
SortedOrders_Unsorted(sh) == { [i \in DOMAIN sh |-> i] }

\* sort by (source, target): the permutations of the row positions that put
\* the rows in order; rows of one pair may come in any order
SortedOrders(sh) ==
    { o \in [DOMAIN sh -> DOMAIN sh] :
        /\ \A i, j \in DOMAIN sh : i # j => o[i] # o[j]
        /\ \A i \in 1..(Len(sh) - 1) : PairLeq(sh[o[i]], sh[o[i + 1]]) }

\* if the row's (source, target) matches the previous row, rank is
\* previous_rank + 1, otherwise 0: the ranked rows from row i on
RECURSIVE AssignRanks(_, _, _)
AssignRanks(sorted, i, ranked) ==
    IF i > Len(sorted) THEN ranked
    ELSE LET same == /\ i > 1
                     /\ sorted[i].src = sorted[i - 1].src
                     /\ sorted[i].dst = sorted[i - 1].dst
             rank == IF same THEN ranked[i - 1].rank + 1 ELSE 0
         IN  AssignRanks(sorted, i + 1,
                Append(ranked, [src |-> sorted[i].src, dst |-> sorted[i].dst,
                                rank |-> rank, proto |-> sorted[i].proto]))

\* INSERT EDGE connects_to ... VALUES src->dst@rank for the ranked rows from
\* row i on: the store holds one edge per (source, rank, destination), an
\* insert with the tuple of a stored edge leaves one edge where two were meant
RECURSIVE InsertEdges(_, _, _)
InsertEdges(ranked, i, stored) ==
    IF i > Len(ranked) THEN stored
    ELSE LET key == <<ranked[i].src, ranked[i].dst, ranked[i].rank>>
         IN  InsertEdges(ranked, i + 1,
                [k \in DOMAIN stored \cup {key} |->
                    IF k = key THEN ranked[i].proto ELSE stored[k]])

NotLoaded == [done |-> FALSE, ranked |-> <<>>, stored |-> <<>>]

\* one more connection row is entered into the spreadsheet
AddSheetRow ==
    /\ ~loaded.done
    /\ Len(sheet) < MaxSheetRows
    /\ \E r \in SheetRows : sheet' = Append(sheet, r)
    /\ UNCHANGED <<loaded, coreVars, decoderVars, neighborVars, handlerVars,
                   startupVars, moreVars>>

\* the spreadsheet is sorted, ranked and inserted
BulkLoad ==
    /\ ~loaded.done
    /\ \E o \in SortedOrders(sheet) :
          LET sorted == [i \in DOMAIN sheet |-> sheet[o[i]]]
              ranked == AssignRanks(sorted, 1, <<>>)
          IN  loaded' = [done |-> TRUE, ranked |-> ranked,
                         stored |-> InsertEdges(ranked, 1, <<>>)]
    /\ UNCHANGED <<sheet, coreVars, decoderVars, neighborVars, handlerVars,
                   startupVars, moreVars>>

LoaderIdle ==
    /\ sheet = <<>>
    /\ loaded = NotLoaded

LoaderNext == AddSheetRow \/ BulkLoad

(***************************************************************************)
(* Type enumeration: QueryAssetTypes of internal/nebula/client.go and      *)
(* BuildAssetTypesList of internal/graph/model.go.                         *)
(***************************************************************************)
\* the records a row of LOOKUP ON Asset_Type may hold: both cells strings, a
\* null type name, and a record with the type name cell missing
TypeRecordUniverse ==
    { <<StringCell(id), StringCell(name)>> :
        id \in {"DT001", "DT002"}, name \in {"Server", "Router"} }
    \cup { <<StringCell("DT001"), NullCell>>, <<StringCell("DT002")>> }

\* a row map that reads the type name from column 0 and a count from column 1
TypeMap_NameFirst(rec) ==
    [ type_name |-> StringValue(safeString(rec, 0)),
      count     |-> IntValue(safeInt_ZeroDefault(rec, 1, 0)) ]

\* map[string]interface{}{"type_id": ..., "type_name": ...} of one record
TypeMap(rec) ==
    [ type_id   |-> StringValue(safeString(rec, 0)),
      type_name |-> StringValue(safeString(rec, 1)) ]

\* the row loop of QueryAssetTypes, from row i on: a row GetRowValuesByIndex
\* cannot return is skipped, every other row is appended
RECURSIVE TypeRows(_, _, _)
TypeRows(rs, i, types) ==
    IF i > Len(rs) THEN types
    ELSE IF ~rs[i].retrievable THEN TypeRows(rs, i + 1, types)
    ELSE TypeRows(rs, i + 1, Append(types, TypeMap(rs[i].cells)))

\* QueryAssetTypes on a result set whose query succeeded
QueryAssetTypes(rs) == TypeRows(rs, 1, <<>>)

\* AssetTypeItem{...} of one map
AssetTypeItem(t) ==
    [ TypeID   |-> mapStr(t, "type_id"),
      TypeName |-> mapStr(t, "type_name") ]

\* for _, t := range types { assetTypes = append(assetTypes, ...) }
RECURSIVE AppendTypes(_, _, _)
AppendTypes(types, i, assetTypes) ==
    IF i > Len(types) THEN assetTypes
    ELSE AppendTypes(types, i + 1, Append(assetTypes, AssetTypeItem(types[i])))

\* BuildAssetTypesList(types)
BuildAssetTypesList(types) ==
    LET assetTypes == AppendTypes(types, 1, <<>>)
    IN  [ AssetTypes |-> assetTypes, Total |-> Len(assetTypes) ]

\* the value of typeList before the enumeration has run
NoTypes ==
    [done |-> FALSE, types |-> <<>>, resp |-> [AssetTypes |-> <<>>, Total |-> 0]]

\* the store put one more row into the result set of the type lookup
AppendTypeRow ==
    /\ ~typeList.done
    /\ Len(typeSet) < MaxTypeRows
    /\ \E cells \in TypeRecordUniverse, retrievable \in BOOLEAN :
          typeSet' = Append(typeSet, [cells |-> cells, retrievable |-> retrievable])
    /\ UNCHANGED <<typeList, coreVars, secondVars, listVars, filterVars, serveVars>>

\* types, err := nebula.QueryAssetTypes(pool, cfg), then
\* graph.BuildAssetTypesList(types)
RunAssetTypes ==
    /\ ~typeList.done
    /\ LET types == QueryAssetTypes(typeSet)
       IN  typeList' = [done |-> TRUE, types |-> types,
                        resp |-> BuildAssetTypesList(types)]
    /\ UNCHANGED <<typeSet, coreVars, secondVars, listVars, filterVars, serveVars>>

TypesIdle ==
    /\ typeSet = <<>>
    /\ typeList = NoTypes

TypesNext == AppendTypeRow \/ RunAssetTypes

(***************************************************************************)
(* The list builders of internal/graph/model.go and their derived counts.  *)
(***************************************************************************)
\* interface{} values of the other dynamic types the builders read
BoolValue(b) == [type |-> "bool", val |-> b]
Int64Value(n) == [type |-> "int64", val |-> n]
FloatValue(whole, tenths) ==
    [type |-> "float64", val |-> [whole |-> whole, tenths |-> tenths]]

\* mapBool: the bool under the key, false when missing or not a bool
mapBool(m, key) ==
    IF key \in DOMAIN m
       THEN IF m[key].type = "bool" THEN m[key].val ELSE FALSE
       ELSE FALSE

\* mapInt: the int, int64 or truncated float64 under the key, 0 otherwise
mapInt(m, key) ==
    IF key \in DOMAIN m
       THEN CASE m[key].type \in {"int", "int64"} -> m[key].val
              [] m[key].type = "float64" -> m[key].val.whole
              [] OTHER -> 0
       ELSE 0

\* the lists of at most n elements of S
ListsOf(S, n) == UNION { [1..k -> S] : k \in 0..n }

\* the maps QueryAssetsWithDetails returns for a row, a map with a priority
\* of another numeric type, and an empty map
ItemUniverse ==
    { [ asset_id |-> StringValue(id), asset_name |-> StringValue("CRM"),
        is_entrance |-> BoolValue(entrance), is_target |-> BoolValue(FALSE),
        priority |-> prio, has_vulnerability |-> BoolValue(FALSE),
        asset_type |-> StringValue("Server") ] :
        id \in {"A0001", "A0002"}, entrance \in BOOLEAN,
        prio \in {IntValue(4), FloatValue(2, 5)} }
    \cup { <<>> }

\* the maps QueryNeighbors returns for a row
NeighborMapUniverse ==
    { [neighbor_id |-> StringValue(id), direction |-> StringValue(d)] :
        id \in {"A0001", "A0002"}, d \in {"outbound", "inbound"} }

\* the maps QueryAssetTypes returns for a row
TypeMapUniverse == { TypeMap(rec) : rec \in TypeRecordUniverse }

\* AssetWithDetails{...} of one map
AssetWithDetails(item) ==
    [ AssetID          |-> mapStr(item, "asset_id"),
      AssetName        |-> mapStr(item, "asset_name"),
      AssetType        |-> mapStr(item, "asset_type"),
      IsEntrance       |-> mapBool(item, "is_entrance"),
      IsTarget         |-> mapBool(item, "is_target"),
      Priority         |-> mapInt(item, "priority"),
      HasVulnerability |-> mapBool(item, "has_vulnerability") ]

\* a loop that leaves out the items without an asset identifier
RECURSIVE AppendAssets_SkipNoId(_, _, _)
AppendAssets_SkipNoId(items, i, assets) ==
    IF i > Len(items) THEN assets
    ELSE IF mapStr(items[i], "asset_id") = ""
         THEN AppendAssets_SkipNoId(items, i + 1, assets)
         ELSE AppendAssets_SkipNoId(items, i + 1,
                 Append(assets, AssetWithDetails(items[i])))

\* for _, item := range items { assets = append(assets, ...) }
RECURSIVE AppendAssets(_, _, _)
AppendAssets(items, i, assets) ==
    IF i > Len(items) THEN assets
    ELSE AppendAssets(items, i + 1, Append(assets, AssetWithDetails(items[i])))

\* BuildAssetsList(items, totalCount)
BuildAssetsList(items, totalCount) ==
    [ Assets   |-> AppendAssets(items, 1, <<>>),
      Total    |-> totalCount,
      Filtered |-> Len(items) ]

\* the value of built before a builder has been called
NotBuilt == [kind |-> "none", totalCount |-> 0, resp |-> <<>>]

\* resp := graph.BuildAssetsList(items, totalCount)
CallBuildAssetsList ==
    /\ built = NotBuilt
    /\ \E items \in ListsOf(ItemUniverse, MaxItems), totalCount \in 0..MaxTotalCount :
          built' = [kind |-> "assets", totalCount |-> totalCount,
                    resp |-> BuildAssetsList(items, totalCount)]
    /\ UNCHANGED <<coreVars, secondVars, typeVars, filterVars, serveVars>>

\* resp := graph.BuildNeighborsList(neighbors)
CallBuildNeighborsList ==
    /\ built = NotBuilt
    /\ \E ns \in ListsOf(NeighborMapUniverse, MaxItems), isNil \in BOOLEAN :
          /\ isNil => ns = <<>>
          /\ built' = [kind |-> "neighbors", totalCount |-> 0,
                       resp |-> BuildNeighborsList([isNil |-> isNil, items |-> ns])]
    /\ UNCHANGED <<coreVars, secondVars, typeVars, filterVars, serveVars>>

\* resp := graph.BuildAssetTypesList(types)
CallBuildAssetTypesList ==
    /\ built = NotBuilt
    /\ \E types \in ListsOf(TypeMapUniverse, MaxItems) :
          built' = [kind |-> "types", totalCount |-> 0,
                    resp |-> BuildAssetTypesList(types)]
    /\ UNCHANGED <<coreVars, secondVars, typeVars, filterVars, serveVars>>

\* resp := graph.BuildEdgeDetailResponse(srcDetail, dstDetail, connections)
CallBuildEdgeDetailResponse ==
    /\ built = NotBuilt
    /\ \E cs \in ListsOf(ConnectionUniverse, MaxItems),
          srcDetail \in DetailUniverse, dstDetail \in DetailUniverse :
          built' = [kind |-> "edge", totalCount |-> 0,
                    resp |-> BuildEdgeDetailResponse(srcDetail, dstDetail, cs)]
    /\ UNCHANGED <<coreVars, secondVars, typeVars, filterVars, serveVars>>

ListsIdle == built = NotBuilt

ListsNext ==
    \/ CallBuildAssetsList
    \/ CallBuildNeighborsList
    \/ CallBuildAssetTypesList
    \/ CallBuildEdgeDetailResponse

(***************************************************************************)
(* Asset list with filters: QueryAssetsList of api/handler.go.             *)
(***************************************************************************)
\* getString: "" for a null cell and for a cell AsString cannot read
getString(rec, idx) ==
    IF rec[idx + 1].type = "string" THEN rec[idx + 1].val ELSE ""

\* getBool: false for a null cell and for a cell AsBool cannot read
getBool(rec, idx) ==
    IF rec[idx + 1].type = "bool" THEN rec[idx + 1].val ELSE FALSE

\* getInt: 0 for a null cell and for a cell AsInt cannot read
getInt(rec, idx) ==
    IF rec[idx + 1].type = "int" THEN rec[idx + 1].val ELSE 0

\* a record of the REQ-021 query: identifier, name and type name as given
AssetRecord(id, name, typeName) ==
    << id, name, BoolCell(TRUE), BoolCell(FALSE), IntCell(2), BoolCell(FALSE),
       typeName >>

\* the records the REQ-021 query may return: one asset is named after the
\* identifier of another, and an asset without a has_type edge has a null
\* type name
AssetRecordUniverse ==
    { AssetRecord(StringCell(id), StringCell(name), StringCell("Server")) :
        id \in {"A0001", "A0002"}, name \in {"CRM", "A0001"} }
    \cup { AssetRecord(StringCell("A0001"), StringCell("CRM"), StringCell("Router")),
           AssetRecord(StringCell("A0002"), NullCell, NullCell) }

\* the values of the query parameters type and search
TypeFilters == {"", "Server", "server"}
SearchFilters == {"", "A0001", "CRM", "CR"}

\* AssetListItem{...} of one record
AssetListItem(rec) ==
    [ AssetID          |-> getString(rec, 0),
      AssetName        |-> getString(rec, 1),
      IsEntrance       |-> getBool(rec, 2),
      IsTarget         |-> getBool(rec, 3),
      Priority         |-> getInt(rec, 4),
      HasVulnerability |-> getBool(rec, 5),
      AssetType        |-> getString(rec, 6) ]

\* a filter whose search looks at the identifier only
FilteredOut_IdOnly(item, assetType, search) ==
    \/ assetType # "" /\ item.AssetType # assetType
    \/ search # "" /\ item.AssetID # search

\* the two filter conditions that end in continue
FilteredOut(item, assetType, search) ==
    \/ assetType # "" /\ item.AssetType # assetType
    \/ search # "" /\ item.AssetID # search /\ item.AssetName # search

\* the parse-and-filter loop from row i on
RECURSIVE ListRows(_, _, _, _, _)
ListRows(rs, i, assetType, search, items) ==
    IF i > Len(rs) THEN items
    ELSE IF ~rs[i].retrievable THEN ListRows(rs, i + 1, assetType, search, items)
    ELSE IF FilteredOut(AssetListItem(rs[i].cells), assetType, search)
         THEN ListRows(rs, i + 1, assetType, search, items)
         ELSE ListRows(rs, i + 1, assetType, search,
                       Append(items, AssetListItem(rs[i].cells)))

\* QueryAssetsList(pool, cfg, assetType, search) on a result set whose query
\* succeeded
QueryAssetsList(rs, assetType, search) == ListRows(rs, 1, assetType, search, <<>>)

\* the value of listed before QueryAssetsList has returned
NotListed == [done |-> FALSE, assetType |-> "", search |-> "", items |-> <<>>]

\* the store put one more row into the result set of the asset query
AppendAssetRow ==
    /\ ~listed.done
    /\ Len(assetSet) < MaxAssetRows
    /\ \E cells \in AssetRecordUniverse, retrievable \in BOOLEAN :
          assetSet' = Append(assetSet, [cells |-> cells, retrievable |-> retrievable])
    /\ UNCHANGED <<listed, coreVars, secondVars, typeVars, listVars, serveVars>>

\* items, err := QueryAssetsList(pool, cfg, assetType, search)
RunQueryAssetsList ==
    /\ ~listed.done
    /\ \E assetType \in TypeFilters, search \in SearchFilters :
          listed' = [done |-> TRUE, assetType |-> assetType, search |-> search,
                     items |-> QueryAssetsList(assetSet, assetType, search)]
    /\ UNCHANGED <<assetSet, coreVars, secondVars, typeVars, listVars, serveVars>>

FilterIdle ==
    /\ assetSet = <<>>
    /\ listed = NotListed

FilterNext == AppendAssetRow \/ RunQueryAssetsList

(***************************************************************************)
(* One graph request from arrival to response: GraphHandler of             *)
(* api/handler.go with the steps of its call to nebula.QueryAssets.        *)
(***************************************************************************)
\* a serving task with no request in hand: hpc is the handler's position, q
\* the state of its call to QueryAssets
IdleCall == [hpc |-> "idle", q |-> IdleTask, status |-> 0]

\* the sessions the task has acquired and not released
SessionsHeld(c) ==
    (IF c.q.get = "ok" THEN 1 ELSE 0) - CountCalls(c.q.calls, "Release")

\* a request for /api/graph arrives: rows, err := nebula.QueryAssets(pool, cfg)
\* is entered
ServeReceive(t) ==
    /\ call[t].hpc = "idle"
    /\ call' = [call EXCEPT ![t] = [IdleCall EXCEPT !.hpc = "query",
                                       !.q = StartStep("QueryAssets", <<>>)]]
    /\ UNCHANGED <<sessionsOut, coreVars, secondVars, typeVars, listVars, filterVars>>

\* a task that asks for a session only while no other task holds one, and
\* waits otherwise
ServeGetSession_WaitForFree(t) ==
    /\ call[t].hpc = "query"
    /\ call[t].q.pc = "getsession"
    /\ sessionsOut = 0
    /\ \E ok \in BOOLEAN :
         /\ call' = [call EXCEPT ![t].q = GetSessionStep(call[t].q, ok)]
         /\ sessionsOut' = PoolAfter(sessionsOut, call[t].q, call'[t].q)
    /\ UNCHANGED <<coreVars, secondVars, typeVars, listVars, filterVars>>

\* openSession: pool.GetSession answers with a session or with an error
ServeGetSession(t) ==
    /\ call[t].hpc = "query"
    /\ call[t].q.pc = "getsession"
    /\ \E ok \in BOOLEAN :
         /\ call' = [call EXCEPT ![t].q = GetSessionStep(call[t].q, ok)]
         /\ sessionsOut' = PoolAfter(sessionsOut, call[t].q, call'[t].q)
    /\ UNCHANGED <<coreVars, secondVars, typeVars, listVars, filterVars>>

\* openSession: session.Execute("USE <space>;") answers
ServeUse(t) ==
    /\ call[t].hpc = "query"
    /\ call[t].q.pc = "use"
    /\ \E outcome \in StoreOutcomes :
         /\ call' = [call EXCEPT ![t].q = UseStep(call[t].q, outcome)]
         /\ sessionsOut' = PoolAfter(sessionsOut, call[t].q, call'[t].q)
    /\ UNCHANGED <<coreVars, secondVars, typeVars, listVars, filterVars>>

\* session.Execute(query) answers
ServeExecute(t) ==
    /\ call[t].hpc = "query"
    /\ call[t].q.pc = "execute"
    /\ \E outcome \in StoreOutcomes :
         \E n \in (IF outcome = "ok" THEN 0..MaxStoreRows ELSE {0}) :
            \E readable \in SUBSET (1..n) :
               /\ call' = [call EXCEPT ![t].q =
                              ExecuteStep(call[t].q, outcome, n, readable)]
               /\ sessionsOut' = PoolAfter(sessionsOut, call[t].q, call'[t].q)
    /\ UNCHANGED <<coreVars, secondVars, typeVars, listVars, filterVars>>

\* the row loop of QueryAssets and its return: the deferred Release runs
ServeDecode(t) ==
    /\ call[t].hpc = "query"
    /\ call[t].q.pc = "decode"
    /\ call' = [call EXCEPT ![t].q = DecodeStep(call[t].q)]
    /\ sessionsOut' = PoolAfter(sessionsOut, call[t].q, call'[t].q)
    /\ UNCHANGED <<coreVars, secondVars, typeVars, listVars, filterVars>>

\* QueryAssets has returned: if err != nil { http.Error(w, ..., 500); return }
ServeReturn(t) ==
    /\ call[t].hpc = "query"
    /\ call[t].q.pc = "done"
    /\ call' = [call EXCEPT ![t].hpc = IF call[t].q.err # "none" THEN "done" ELSE "build",
                            ![t].status = IF call[t].q.err # "none" THEN 500 ELSE 0]
    /\ UNCHANGED <<sessionsOut, coreVars, secondVars, typeVars, listVars, filterVars>>

\* cyGraph := graph.BuildGraph(rows)
ServeBuild(t) ==
    /\ call[t].hpc = "build"
    /\ call' = [call EXCEPT ![t].hpc = "marshal"]
    /\ UNCHANGED <<sessionsOut, coreVars, secondVars, typeVars, listVars, filterVars>>

\* jsonData, err := json.Marshal(cyGraph), and the error branch
ServeMarshal(t) ==
    /\ call[t].hpc = "marshal"
    /\ \/ call' = [call EXCEPT ![t].hpc = "write"]
       \/ call' = [call EXCEPT ![t].hpc = "done", ![t].status = 500]
    /\ UNCHANGED <<sessionsOut, coreVars, secondVars, typeVars, listVars, filterVars>>

\* w.WriteHeader(http.StatusOK); w.Write(jsonData)
ServeWrite(t) ==
    /\ call[t].hpc = "write"
    /\ call' = [call EXCEPT ![t].hpc = "done", ![t].status = 200]
    /\ UNCHANGED <<sessionsOut, coreVars, secondVars, typeVars, listVars, filterVars>>

\* the handler has returned; the task takes the next request
ServeFinish(t) ==
    /\ call[t].hpc = "done"
    /\ call' = [call EXCEPT ![t] = IdleCall]
    /\ UNCHANGED <<sessionsOut, coreVars, secondVars, typeVars, listVars, filterVars>>

ServeIdle ==
    /\ call = [t \in Tasks |-> IdleCall]
    /\ sessionsOut = 0

\* the steps of a request between its arrival and the handler's return
ServeProgress(t) ==
    \/ ServeGetSession(t)
    \/ ServeUse(t)
    \/ ServeExecute(t)
    \/ ServeDecode(t)
    \/ ServeReturn(t)
    \/ ServeBuild(t)
    \/ ServeMarshal(t)
    \/ ServeWrite(t)

ServeNext ==
    \E t \in Tasks :
        \/ ServeReceive(t)
        \/ ServeProgress(t)
        \/ ServeFinish(t)

ExecutorIdle ==
    /\ task = [t \in Tasks |-> IdleTask]
    /\ poolOut = 0

ValidatorIdle ==
    /\ candidate = <<>>
    /\ verdict = "pending"

ExecutorNext ==
    \E t \in Tasks :
        \/ Start(t)
        \/ Validate(t)
        \/ GetSession(t)
        \/ Use(t)
        \/ Execute(t)
        \/ Decode(t)
        \/ Complete(t)

Init ==
    /\ ValidatorIdle
    /\ ExecutorIdle
    /\ AssemblerIdle
    /\ BuilderIdle
    /\ DecoderIdle
    /\ NeighborsIdle
    /\ HandlersIdle
    /\ StartupIdle
    /\ LoaderIdle
    /\ TypesIdle
    /\ ListsIdle
    /\ FilterIdle
    /\ ServeIdle

Spec == Init /\ [][ExecutorNext]_vars

\* the steps of an invocation between its start and its return
Progress(t) == Validate(t) \/ GetSession(t) \/ Use(t) \/ Execute(t) \/ Decode(t)

\* the executor with task 1 under no obligation to move (its calls to the
\* store may never return) and every other task scheduled and answered
SpecStuck ==
    /\ Init
    /\ [][ExecutorNext]_vars
    /\ \A t \in Tasks \ {1} : WF_vars(Progress(t))

SpecGraph == Init /\ [][AssemblerNext]_vars

SpecBuilders == Init /\ [][BuilderNext]_vars

SpecCells == Init /\ [][CellsNext]_vars

SpecRows == Init /\ [][RowsNext]_vars

SpecNeighbors == Init /\ [][NeighborsNext]_vars

SpecHandlers == Init /\ [][HandlersNext]_vars

SpecStartup == Init /\ [][StartupNext]_vars

SpecLoader == Init /\ [][LoaderNext]_vars

SpecTypes == Init /\ [][TypesNext]_vars

SpecLists == Init /\ [][ListsNext]_vars

SpecFilter == Init /\ [][FilterNext]_vars

SpecServe == Init /\ [][ServeNext]_vars

\* the serving tasks with every task scheduled and every call to the store
\* answered
SpecServeFair ==
    /\ Init
    /\ [][ServeNext]_vars
    /\ \A t \in Tasks : WF_vars(ServeProgress(t))

\* the caller supplies one more character of the path parameter
AppendChar ==
    /\ verdict = "pending"
    /\ Len(candidate) < MaxIdLen
    /\ \E c \in Alphabet : candidate' = Append(candidate, c)
    /\ UNCHANGED <<verdict, executorVars, assemblerVars, builderVars, restVars>>

\* ValidateAssetID(candidate) is evaluated; the candidate is left as it is
RunValidate ==
    /\ verdict = "pending"
    /\ verdict' = IF ValidateAssetID(candidate) THEN "valid" ELSE "invalid"
    /\ UNCHANGED <<candidate, executorVars, assemblerVars, builderVars, restVars>>

ValidatorNext == AppendChar \/ RunValidate

SpecValidator == Init /\ [][ValidatorNext]_vars

(***************************************************************************)
(* Properties.                                                             *)
(***************************************************************************)
\* the strings of ^A\d{4,5}$, said directly: "A", then 4 or 5 decimal digits
WellFormed(id) ==
    /\ Len(id) \in {5, 6}
    /\ id[1] = "A"
    /\ \A i \in 2..Len(id) : id[i] \in Digit

\* some store call of the invocation failed
StoreFailed(r) ==
    r.get = "err" \/ r.use \in {"err", "rejected"} \/ r.exec \in {"err", "rejected"}

C2_ValidatorAcceptsExactly ==
    [][ (verdict = "pending" /\ verdict' # "pending") =>
            /\ verdict' = "valid" <=> WellFormed(candidate)
            /\ verdict' \in {"valid", "invalid"}
            /\ candidate' = candidate
            /\ UNCHANGED <<executorVars, assemblerVars, builderVars, restVars>> ]_vars

C2_Witness ==
    /\ verdict = "invalid"
    /\ candidate = <<"A", "0", "0", "0", "0", "0", "0">>

\* C3: every session acquired is released exactly once on every exit path: a
\* returned invocation holds no session and released once if it acquired one,
\* the pool's count of sessions out equals the number of tasks holding one,
\* and it is zero whenever no invocation is in progress.
C3_SessionReleased ==
    /\ \A t \in Tasks :
         LET r == task[t]
         IN  /\ CountCalls(r.calls, "Release") <= (IF r.get = "ok" THEN 1 ELSE 0)
             /\ r.pc \in {"idle", "done"} =>
                   /\ ~Holds(r)
                   /\ CountCalls(r.calls, "Release") = (IF r.get = "ok" THEN 1 ELSE 0)
    /\ poolOut = Cardinality({t \in Tasks : Holds(task[t])})
    /\ (\A t \in Tasks : task[t].pc \in {"idle", "done"}) => poolOut = 0

C3_Witness ==
    /\ \E t \in Tasks :
         /\ task[t].pc = "done"
         /\ task[t].use = "rejected"
         /\ CountCalls(task[t].calls, "Release") = 1
    /\ \E t \in Tasks :
         /\ task[t].pc = "done"
         /\ task[t].err = "ReadFailed"
         /\ CountCalls(task[t].calls, "Release") = 1
    /\ poolOut = 0

\* C4: the calls of an invocation are, in order, GetSession, one USE, the
\* query, Release; the query is executed only after a USE that succeeded, and
\* a failed or rejected USE returns an error with the query never executed.
C4_CallOrder ==
    \A t \in Tasks :
        LET r == task[t]
        IN  /\ r.calls \in { <<>>,
                             <<"GetSession">>,
                             <<"GetSession", "Execute:USE">>,
                             <<"GetSession", "Execute:USE", "Release">>,
                             <<"GetSession", "Execute:USE", "Execute:query">>,
                             <<"GetSession", "Execute:USE", "Execute:query", "Release">> }
            /\ CountCalls(r.calls, "Execute:query") > 0 => r.use = "ok"
            /\ r.use \in {"err", "rejected"} =>
                  /\ r.pc = "done"
                  /\ r.err \in {"UseFailed", "UseRejected"}
                  /\ r.exec = "none"

C4_Witness ==
    \E t \in Tasks :
        /\ task[t].pc = "done"
        /\ task[t].use = "rejected"
        /\ task[t].err = "UseRejected"
        /\ task[t].calls = <<"GetSession", "Execute:USE", "Release">>

\* C5: an invocation in which session acquisition, USE or the query failed
\* (transport error or rejection) returns an error and no rows; a value is
\* returned only when all three succeeded.
C5_FailuresSurface ==
    \A t \in Tasks :
        LET r == task[t]
        IN  /\ (r.pc = "done" /\ StoreFailed(r)) =>
                  (r.err # "none" /\ r.result = "nil" /\ r.nout = 0)
            /\ r.result = "value" =>
                  (r.get = "ok" /\ r.use = "ok" /\ r.exec = "ok" /\ r.err = "none")

C5_Witness ==
    \E t \in Tasks :
        /\ task[t].op = "QueryNeighbors"
        /\ task[t].pc = "done"
        /\ task[t].exec = "rejected"
        /\ task[t].err = "QueryRejected"
        /\ task[t].result = "nil"

\* C6: no retry: one invocation makes at most one GetSession, one USE and one
\* execution of the query; a failure at any of them ends the invocation at
\* once, with exactly one error return naming the failed step.
C6_NoRetry ==
    \A t \in Tasks :
        LET r == task[t]
        IN  /\ CountCalls(r.calls, "GetSession") <= 1
            /\ CountCalls(r.calls, "Execute:USE") <= 1
            /\ CountCalls(r.calls, "Execute:query") <= 1
            /\ r.nerr <= 1
            /\ StoreFailed(r) =>
                  /\ r.pc = "done"
                  /\ r.nerr = 1
                  /\ r.get = "err" => (r.err = "GetSessionFailed" /\ r.use = "none")
                  /\ r.use = "err" => (r.err = "UseFailed" /\ r.exec = "none")
                  /\ r.use = "rejected" => (r.err = "UseRejected" /\ r.exec = "none")
                  /\ r.exec = "err" => r.err = "ExecFailed"
                  /\ r.exec = "rejected" => r.err = "QueryRejected"

C6_Witness ==
    \E t \in Tasks :
        /\ task[t].pc = "done"
        /\ task[t].exec = "err"
        /\ task[t].err = "ExecFailed"
        /\ task[t].nerr = 1
        /\ CountCalls(task[t].calls, "Execute:query") = 1

\* the identifiers in the source and destination fields of the rows
RowIds(rs) ==
    UNION { {rs[i].SrcAssetID, rs[i].DstAssetID} : i \in DOMAIN rs }

\* the identifiers of the nodes of a graph
NodeIds(g) == { g.Nodes[i].ID : i \in DOMAIN g.Nodes }

\* C7 as stated: the number of nodes of the assembled graph equals the number
\* of distinct identifiers in the source and destination fields of the rows.
C7_NodeCountAllIds ==
    cyGraph.built => Len(cyGraph.Nodes) = Cardinality(RowIds(rows))

\* C7: the assembled graph has one node for each distinct non-empty identifier
\* in the source and destination fields of the rows and no other node, so that
\* its node count equals the number of distinct non-empty identifiers; a
\* self-loop and an identifier met as source and as destination count once.
C7_NodeCount ==
    cyGraph.built =>
        /\ Len(cyGraph.Nodes) = Cardinality(RowIds(rows) \ {<<>>})
        /\ NodeIds(cyGraph) = RowIds(rows) \ {<<>>}

C7_Witness ==
    /\ cyGraph.built
    /\ Len(rows) = 2
    /\ rows[1].SrcAssetID = <<>>
    /\ rows[1].DstAssetID = <<"A", "0", "0", "0", "1">>
    /\ rows[2].SrcAssetID = <<"A", "0", "0", "0", "1">>
    /\ rows[2].DstAssetID = <<"A", "0", "0", "0", "1">>
    /\ Len(cyGraph.Nodes) = 1

\* the endpoints of the rows in the order the assembler meets them: the source
\* of a row before its destination, rows in input order
Endpoints(rs) ==
    [ k \in 1..(2 * Len(rs)) |->
        IF k % 2 = 1
        THEN LET r == rs[(k + 1) \div 2]
             IN  [id |-> r.SrcAssetID, Name |-> r.SrcAssetName,
                  AssetType |-> r.SrcAssetType, IsEntrance |-> r.SrcIsEntrance,
                  IsTarget |-> r.SrcIsTarget, Priority |-> r.SrcPriority,
                  HasVulnerability |-> r.SrcHasVulnerability]
        ELSE LET r == rs[k \div 2]
             IN  [id |-> r.DstAssetID, Name |-> r.DstAssetName,
                  AssetType |-> r.DstAssetType, IsEntrance |-> r.DstIsEntrance,
                  IsTarget |-> r.DstIsTarget, Priority |-> r.DstPriority,
                  HasVulnerability |-> r.DstHasVulnerability] ]

\* the position of the first occurrence of an identifier among the endpoints
FirstSeen(rs, id) ==
    CHOOSE k \in DOMAIN Endpoints(rs) :
        /\ Endpoints(rs)[k].id = id
        /\ \A j \in 1..(k - 1) : Endpoints(rs)[j].id # id

RowPairs(rs) == { <<rs[i].SrcAssetID, rs[i].DstAssetID>> : i \in DOMAIN rs }

\* C9: the assembled graph holds exactly one display edge for each distinct
\* ordered (source, destination) pair of the rows, however many rows share
\* the pair, and its edge count equals the number of distinct pairs.
C9_OneEdgePerPair ==
    cyGraph.built =>
        /\ Len(cyGraph.Edges) = Cardinality(RowPairs(rows))
        /\ \A p \in RowPairs(rows) :
              Cardinality({ i \in DOMAIN cyGraph.Edges :
                              /\ cyGraph.Edges[i].Source = p[1]
                              /\ cyGraph.Edges[i].Target = p[2] }) = 1

\* C10: the connections list of the edge detail response holds one entry for
\* each connection row, in row order, rows equal in protocol and port are not
\* merged, and the total equals the number of rows.
C10_OneEntryPerConnection ==
    edgeDetail.built =>
        /\ Len(edgeDetail.Connections) = Len(connections)
        /\ edgeDetail.Total = Len(connections)
        /\ \A i \in DOMAIN connections :
              /\ edgeDetail.Connections[i].ConnectionProtocol
                    = mapStr(connections[i], "connection_protocol")
              /\ edgeDetail.Connections[i].ConnectionPort
                    = mapStr(connections[i], "connection_port")

C10_Witness ==
    /\ edgeDetail.built
    /\ Len(connections) = 3
    /\ connections[1] = connections[3]
    /\ connections[1] # connections[2]
    /\ edgeDetail.Total = 3
    /\ edgeDetail.Connections[1] = edgeDetail.Connections[3]
    /\ edgeDetail.Connections[1].ConnectionPort = "443"


\* the type a column is declared with, and the default it decodes to
DeclaredType(column) ==
    CASE column = "asset_name"  -> "string"
      [] column = "is_entrance" -> "bool"
      [] column \in {"priority", "ttb"} -> "int"

DeclaredDefault(column) ==
    CASE column = "asset_name"  -> StringCell("")
      [] column = "is_entrance" -> BoolCell(FALSE)
      [] column = "priority"    -> IntCell(4)
      [] column = "ttb"         -> IntCell(10)

\* C11: decoding a cell yields the value of the cell when the cell is there
\* and of the type of its column, and otherwise (index missing, cell null,
\* cell of another type) the default of the column: "" for a string column,
\* false for a boolean column, 4 for priority and 10 for time-to-bypass.
C11_CellDecoding ==
    cellOut # NoCell =>
        LET i == cellOut.idx + 1
            present == /\ i \in DOMAIN record
                       /\ record[i].type = DeclaredType(cellOut.column)
        IN  [type |-> DeclaredType(cellOut.column), val |-> cellOut.value]
              = IF present THEN record[i] ELSE DeclaredDefault(cellOut.column)

C11_Witness ==
    /\ cellOut.column = "ttb"
    /\ cellOut.idx = 1
    /\ Len(record) = 2
    /\ record[1] = IntCell(1)
    /\ record[2] = NullCell
    /\ cellOut.value = 10

\* the columns of the REQ-020 query in order: field decoded into, type, default
AssetRowColumns ==
    << <<"SrcAssetID", "string", "">>, <<"SrcAssetName", "string", "">>,
       <<"SrcIsEntrance", "bool", FALSE>>, <<"SrcIsTarget", "bool", FALSE>>,
       <<"SrcPriority", "int", 4>>, <<"SrcHasVulnerability", "bool", FALSE>>,
       <<"SrcAssetType", "string", "">>,
       <<"DstAssetID", "string", "">>, <<"DstAssetName", "string", "">>,
       <<"DstIsEntrance", "bool", FALSE>>, <<"DstIsTarget", "bool", FALSE>>,
       <<"DstPriority", "int", 4>>, <<"DstHasVulnerability", "bool", FALSE>>,
       <<"DstAssetType", "string", "">> >>

\* the positions of the rows of a result set that can be retrieved, in order
RECURSIVE Retrievable(_, _)
Retrievable(rs, i) ==
    IF i > Len(rs) THEN <<>>
    ELSE (IF rs[i].retrievable THEN <<i>> ELSE <<>>) \o Retrievable(rs, i + 1)

\* C12: decoding never drops a row over its cells: the decoded list holds one
\* record for each row the result set returns, in order, whichever of the
\* row's cells are null, missing or of another type, and each field of the
\* record is the cell's value or, for such a cell, the default of its column.
C12_OneRecordPerRow ==
    decoded.done =>
        LET kept == Retrievable(resultSet, 1)
        IN  /\ Len(decoded.rows) = Len(kept)
            /\ \A k \in DOMAIN kept :
                 \A c \in DOMAIN AssetRowColumns :
                    LET cells == resultSet[kept[k]].cells
                        col == AssetRowColumns[c]
                        present == c \in DOMAIN cells /\ cells[c].type = col[2]
                    IN  [type |-> col[2], val |-> decoded.rows[k][col[1]]]
                          = IF present THEN cells[c]
                            ELSE [type |-> col[2], val |-> col[3]]

C12_Witness ==
    /\ decoded.done
    /\ Len(resultSet) = 2
    /\ resultSet[1].retrievable
    /\ resultSet[2].retrievable
    /\ resultSet[1].cells = Damaged(GoodRecord, 1..14, NullCell)
    /\ resultSet[2].cells = SubSeq(GoodRecord, 1, 7)
    /\ Len(decoded.rows) = 2
    /\ decoded.rows[1].SrcPriority = 4
    /\ decoded.rows[2].DstAssetID = ""

\* C13: a detail lookup with a well-formed identifier whose query succeeds
\* with zero rows is answered with 404, a lookup in which the store failed
\* (session, USE or query) is answered with 500, and 404 is given in no other
\* case, so the two are never answered alike.
C13_NotFoundIsNotFailure ==
    \A t \in Tasks :
        LET r == task[t]
        IN  (r.pc = "done" /\ r.op = "QueryAssetDetail") =>
              /\ (WellFormed(r.id) /\ r.exec = "ok" /\ r.nrows = 0)
                    => AssetDetailStatus(r) = 404
              /\ StoreFailed(r) => AssetDetailStatus(r) = 500
              /\ AssetDetailStatus(r) = 404
                    => (~StoreFailed(r) /\ r.exec = "ok" /\ r.nrows = 0)

C13_Witness ==
    \E t, u \in Tasks :
        /\ task[t].pc = "done" /\ task[u].pc = "done"
        /\ task[t].op = "QueryAssetDetail" /\ task[u].op = "QueryAssetDetail"
        /\ task[t].id = task[u].id
        /\ task[t].exec = "ok" /\ task[t].nrows = 0
        /\ task[u].exec = "rejected"
        /\ AssetDetailStatus(task[t]) = 404
        /\ AssetDetailStatus(task[u]) = 500

\* C14: a neighbor lookup whose query succeeds with zero rows returns no error
\* and a list that is allocated (not nil) and empty, and the response built
\* from it holds an allocated empty neighbors list and total 0.
C14_EmptyNeighbors ==
    (lookup.pc = "done" /\ lookup.rows = <<>>) =>
        /\ lookup.err = "none"
        /\ lookup.neighbors = MakeSlice
        /\ lookup.resp.Neighbors.isNil = FALSE
        /\ lookup.resp.Neighbors.items = <<>>
        /\ lookup.resp.Total = 0

C14_Witness ==
    /\ lookup.pc = "done"
    /\ lookup.id = "A0003"
    /\ Cardinality(storeEdges) = 2
    /\ lookup.rows = <<>>
    /\ lookup.resp.Total = 0

\* the records the claim asks of a lookup of x: one (y, "outbound") for every
\* y with an edge x -> y, one (z, "inbound") for every z with an edge z -> x
ExpectedNeighbors(es, x) ==
    { [NeighborID |-> e.dst, Direction |-> "outbound"] : e \in {f \in es : f.src = x} }
    \cup
    { [NeighborID |-> e.src, Direction |-> "inbound"] : e \in {f \in es : f.dst = x} }

C15_GenericFailureMessage ==
    \A t \in Tasks :
        req[t].err # "none" =>
            /\ req[t].pc = "done"
            /\ req[t].status = 500
            /\ req[t].body = "Failed to query database\n"

C15_Witness ==
    \E t, u \in Tasks :
        /\ req[t].err = "failed to get session: pool exhausted"
        /\ req[u].err = "query failed: SemanticError: `Asset' not found"
        /\ req[t].status = 500 /\ req[u].status = 500
        /\ req[t].body = req[u].body

\* C17: whatever the other requests are doing, a request that is answered
\* with 200 is answered with the encoding of the graph built from the rows of
\* its own query and from nothing else, as if it had run alone.
C17_RequestIsolation ==
    \A t \in Tasks :
        req[t].status = 200 =>
            \E order \in RangeOrders(CollectNodes(req[t].rows, 1, <<>>)) :
                req[t].body = MarshalGraph(BuildGraph(req[t].rows, order))

C17_Witness ==
    \E t, u \in Tasks :
        /\ req[t].status = 200 /\ req[u].status = 200
        /\ Len(req[t].rows) = 2
        /\ Len(req[u].rows) = 1
        /\ Len(req[t].body.edges) = 2
        /\ Len(req[u].body.edges) = 1

\* C16: when the connection pool cannot be created, the process has exited
\* with no endpoint registered and no request served; a request is served
\* only by a process whose pool was created.
C16_NoServiceWithoutPool ==
    /\ boot.pool = "failed" =>
          (boot.pc = "exited" /\ boot.registered = 0 /\ boot.served = <<>>)
    /\ (boot.registered > 0 \/ boot.served # <<>>) => boot.pool = "ok"

C16_Witness ==
    /\ boot.pool = "failed"
    /\ boot.pc = "exited"
    /\ boot.registered = 0

\* C18: while task 1 is inside its query round trip, for however long, every
\* other task that has an invocation under way goes on to its return: nothing
\* task 1 holds keeps another task from acquiring a session, executing its
\* query and completing.
C18_StuckQueryBlocksOnlyItsTask ==
    \A t \in Tasks \ {1} :
        (task[1].pc = "execute" /\ task[t].pc \notin {"idle", "done"})
            ~> (task[t].pc = "done")

C18_Witness ==
    \E t \in Tasks \ {1} :
        /\ task[1].pc = "execute"
        /\ poolOut = 1
        /\ task[t].pc = "done"
        /\ task[t].result = "value"
        /\ task[t].calls = <<"GetSession", "Execute:USE", "Execute:query", "Release">>

\* the ranked rows of a (source, target) pair
RanksOf(ranked, a, b) ==
    { i \in DOMAIN ranked : ranked[i].src = a /\ ranked[i].dst = b }

\* C19: under the rank assignment convention no two rows get the same
\* (source, target, rank), the ranks of a pair with k rows are exactly
\* 0..k-1, and the store ends with one edge per row: none was overwritten.
C19_RanksUnique ==
    loaded.done =>
        /\ Len(loaded.ranked) = Len(sheet)
        /\ \A i, j \in DOMAIN loaded.ranked :
              (/\ loaded.ranked[i].src = loaded.ranked[j].src
               /\ loaded.ranked[i].dst = loaded.ranked[j].dst
               /\ loaded.ranked[i].rank = loaded.ranked[j].rank) => i = j
        /\ \A a \in SheetVertices, b \in SheetVertices :
              { loaded.ranked[i].rank : i \in RanksOf(loaded.ranked, a, b) }
                 = 0..(Cardinality({ i \in DOMAIN sheet :
                                       sheet[i].src = a /\ sheet[i].dst = b }) - 1)
        /\ Cardinality(DOMAIN loaded.stored) = Len(sheet)

C19_Witness ==
    /\ loaded.done
    /\ Len(sheet) = 3
    /\ sheet[1].src = "A0001" /\ sheet[1].dst = "A0002"
    /\ sheet[2].src = "A0001" /\ sheet[2].dst = "A0001"
    /\ sheet[3].src = "A0001" /\ sheet[3].dst = "A0002"
    /\ <<"A0001", "A0002", 1>> \in DOMAIN loaded.stored
    /\ Cardinality(DOMAIN loaded.stored) = 3

\* C21: type enumeration maps the type rows the result set returns to the
\* response one-to-one and in row order: the response has one entry per row,
\* total is that number, and the k-th entry carries the type_id and the
\* type_name of the k-th row.
C21_TypesInRowOrder ==
    typeList.done =>
        LET kept == Retrievable(typeSet, 1)
            resp == typeList.resp
        IN  /\ Len(resp.AssetTypes) = Len(kept)
            /\ resp.Total = Len(kept)
            /\ \A k \in DOMAIN kept :
                 LET cells == typeSet[kept[k]].cells
                 IN  /\ (1 \in DOMAIN cells /\ cells[1].type = "string")
                           => resp.AssetTypes[k].TypeID = cells[1].val
                     /\ (2 \in DOMAIN cells /\ cells[2].type = "string")
                           => resp.AssetTypes[k].TypeName = cells[2].val

C21_Witness ==
    /\ typeList.done
    /\ Len(typeSet) = 2
    /\ typeSet[1] = [cells |-> <<StringCell("DT001"), StringCell("Server")>>,
                     retrievable |-> TRUE]
    /\ typeSet[2] = [cells |-> <<StringCell("DT002"), StringCell("Router")>>,
                     retrievable |-> TRUE]
    /\ typeList.resp =
         [ AssetTypes |-> << [TypeID |-> "DT001", TypeName |-> "Server"],
                             [TypeID |-> "DT002", TypeName |-> "Router"] >>,
           Total |-> 2 ]

\* C22: every derived count of a response equals the length of the list
\* returned with it: total is the number of neighbors, of types and of
\* connections, filtered is the number of assets of the asset list, and the
\* total of the asset list is the count the caller passed.
C22_CountsMatchLists ==
    /\ built.kind = "neighbors" =>
          built.resp.Total = Len(built.resp.Neighbors.items)
    /\ built.kind = "types" =>
          built.resp.Total = Len(built.resp.AssetTypes)
    /\ built.kind = "edge" =>
          built.resp.Total = Len(built.resp.Connections)
    /\ built.kind = "assets" =>
          /\ built.resp.Filtered = Len(built.resp.Assets)
          /\ built.resp.Total = built.totalCount

C22_Witness ==
    /\ built.kind = "assets"
    /\ built.totalCount = 3
    /\ Len(built.resp.Assets) = 2
    /\ built.resp.Assets[1].AssetID = ""
    /\ built.resp.Assets[2].Priority = 2
    /\ built.resp.Filtered = 2
    /\ built.resp.Total = 3

\* C23: the graph endpoint answers 200, with the encoding of the graph it
\* built, exactly when QueryAssets and json.Marshal both succeeded; when
\* either fails it answers 500 with a fixed message and no graph data, and
\* the handler returns; a status, once written, is the request's only one.
C23_StatusFollowsOutcome ==
    /\ [](\A t \in Tasks :
            LET r == req[t]
                failed == r.err # "none" \/ r.jsonErr # "none"
            IN  /\ r.status = 200 =>
                      (~failed /\ r.body = MarshalGraph(r.cyGraph))
                /\ failed =>
                      /\ r.pc = "done"
                      /\ r.status = 500
                      /\ r.body \in {"Failed to query database\n",
                                     "Failed to generate JSON\n"}
                /\ (r.pc = "done" /\ ~failed) => r.status = 200
                /\ r.pc = "done" <=> r.status # 0)
    /\ [][\A t \in Tasks :
            req[t].status # 0 =>
                (req'[t].status = req[t].status \/ req'[t] = IdleRequest)]_vars

C23_Witness ==
    \E t, u \in Tasks :
        /\ req[t].pc = "done" /\ req[u].pc = "done"
        /\ req[t].err = "none" /\ req[t].jsonErr # "none"
        /\ req[t].status = 500
        /\ req[t].cyGraph # NoGraph
        /\ req[u].err = "none" /\ req[u].jsonErr = "none"
        /\ req[u].status = 200
        /\ Len(req[u].body.edges) = 2

\* C24: referential integrity of the assembled graph: for every row list,
\* rows with an empty source or destination identifier included, the source
\* and the target of every display edge are identifiers of nodes of the graph.
C24_EdgesReferToNodes ==
    cyGraph.built =>
        \A i \in DOMAIN cyGraph.Edges :
            /\ cyGraph.Edges[i].Source \in NodeIds(cyGraph)
            /\ cyGraph.Edges[i].Target \in NodeIds(cyGraph)

\* C25: the pair key of the edge loop is injective: two rows with different
\* ordered (source, target) pairs never have the same key, so the edge of a
\* row is never left out because a row of another pair came before it.
C25_KeyInjective ==
    /\ \A i, j \in DOMAIN rows :
          EdgeKey(rows[i]) = EdgeKey(rows[j]) =>
              /\ rows[i].SrcAssetID = rows[j].SrcAssetID
              /\ rows[i].DstAssetID = rows[j].DstAssetID
    /\ cyGraph.built =>
          \A i \in DOMAIN rows :
              \E e \in DOMAIN cyGraph.Edges :
                  /\ cyGraph.Edges[e].Source = rows[i].SrcAssetID
                  /\ cyGraph.Edges[e].Target = rows[i].DstAssetID

\* C26: deduplication of display edges keeps direction: when the rows hold a
\* pair and its reverse the graph has an edge for each direction, and the
\* (source, target) of every display edge is the (source, destination) of
\* some row.
C26_DirectionKept ==
    cyGraph.built =>
        /\ \A e \in DOMAIN cyGraph.Edges :
              <<cyGraph.Edges[e].Source, cyGraph.Edges[e].Target>> \in RowPairs(rows)
        /\ \A p \in RowPairs(rows) :
              <<p[2], p[1]>> \in RowPairs(rows) =>
                  \E e \in DOMAIN cyGraph.Edges :
                      /\ cyGraph.Edges[e].Source = p[1]
                      /\ cyGraph.Edges[e].Target = p[2]

\* the assets of the rows a result set returns, in row order
RECURSIVE DecodedAssets(_, _)
DecodedAssets(rs, i) ==
    IF i > Len(rs) THEN <<>>
    ELSE (IF rs[i].retrievable THEN <<AssetListItem(rs[i].cells)>> ELSE <<>>)
         \o DecodedAssets(rs, i + 1)

\* an asset passes the filters: the type filter is empty or is the asset's
\* type name, and the search filter is empty or is the asset's identifier or
\* its name
PassesFilters(item) ==
    /\ listed.assetType = "" \/ item.AssetType = listed.assetType
    /\ listed.search = "" \/ listed.search = item.AssetID
                          \/ listed.search = item.AssetName

\* C27: the asset list holds exactly the decoded assets that pass the type
\* filter and the search filter, compared for exact equality, in the order of
\* their rows; with both filters empty it holds every decoded asset.
C27_FilterKeepsExactMatches ==
    listed.done =>
        /\ listed.items = SelectSeq(DecodedAssets(assetSet, 1), PassesFilters)
        /\ (listed.assetType = "" /\ listed.search = "") =>
              listed.items = DecodedAssets(assetSet, 1)

C27_Witness ==
    /\ listed.done
    /\ listed.assetType = "Server"
    /\ listed.search = "A0001"
    /\ Len(assetSet) = 3
    /\ \A i \in 1..3 : assetSet[i].retrievable
    /\ assetSet[1].cells[1] = StringCell("A0002")
    /\ assetSet[1].cells[2] = StringCell("A0001")
    /\ assetSet[1].cells[7] = StringCell("Server")
    /\ assetSet[2].cells[1] = StringCell("A0001")
    /\ assetSet[2].cells[7] = StringCell("Router")
    /\ assetSet[3].cells[1] = StringCell("A0001")
    /\ assetSet[3].cells[2] = StringCell("CRM")
    /\ assetSet[3].cells[7] = StringCell("Server")
    /\ Len(listed.items) = 2
    /\ listed.items[1].AssetID = "A0002"
    /\ listed.items[2].AssetID = "A0001"

\* C28 as stated: a request holds at most one session, and holds it only
\* during namespace selection and the query round-trip.
C28_HeldOnlyForStoreCalls ==
    \A t \in Tasks :
        /\ SessionsHeld(call[t]) \in {0, 1}
        /\ SessionsHeld(call[t]) = 1 =>
              (call[t].hpc = "query" /\ call[t].q.pc \in {"use", "execute"})

\* C28: a request holds at most one session, and holds it only inside
\* QueryAssets: during namespace selection, the query round-trip and the
\* decoding of the returned rows; the session is released before the graph
\* is assembled, serialized or written.
C28_ReleasedBeforeBuild ==
    \A t \in Tasks :
        /\ SessionsHeld(call[t]) \in {0, 1}
        /\ SessionsHeld(call[t]) = 1 =>
              (call[t].hpc = "query" /\ call[t].q.pc \in {"use", "execute", "decode"})
        /\ call[t].hpc \in {"build", "marshal", "write", "done"} =>
              SessionsHeld(call[t]) = 0
        /\ sessionsOut = Cardinality({u \in Tasks : SessionsHeld(call[u]) = 1})

C28_Witness ==
    \E t, u \in Tasks :
        /\ call[t].hpc = "write"
        /\ call[t].q.get = "ok"
        /\ call[t].q.nout = 2
        /\ CountCalls(call[t].q.calls, "Release") = 1
        /\ call[u].hpc = "query"
        /\ call[u].q.pc = "decode"
        /\ sessionsOut = 1

\* the position of the first row with the (source, destination) pair p
FirstRowOf(rs, p) ==
    CHOOSE i \in DOMAIN rs :
        /\ <<rs[i].SrcAssetID, rs[i].DstAssetID>> = p
        /\ \A j \in 1..(i - 1) : <<rs[j].SrcAssetID, rs[j].DstAssetID>> # p

\* the nodes of a graph as a set
NodeSetOf(g) == { g.Nodes[i] : i \in DOMAIN g.Nodes }

\* C29: assembly is deterministic up to the order of the nodes: every other
\* run on the same rows returns the same set of nodes with the same
\* attributes and the same sequence of display edges; the display edges
\* stand in the order in which their pairs first occur in the rows; and the
\* run leaves the rows as they were.
C29_DeterministicEdgeOrder ==
    /\ [](cyGraph.built =>
            /\ \A order \in RangeOrders(CollectNodes(rows, 1, <<>>)) :
                  LET again == BuildGraph(rows, order)
                  IN  /\ NodeSetOf(again) = NodeSetOf(cyGraph)
                      /\ Len(again.Nodes) = Len(cyGraph.Nodes)
                      /\ again.Edges = cyGraph.Edges
            /\ \A e \in DOMAIN cyGraph.Edges :
                  <<cyGraph.Edges[e].Source, cyGraph.Edges[e].Target>> \in RowPairs(rows)
            /\ \A e, f \in DOMAIN cyGraph.Edges :
                  e < f =>
                     FirstRowOf(rows, <<cyGraph.Edges[e].Source, cyGraph.Edges[e].Target>>)
                       < FirstRowOf(rows, <<cyGraph.Edges[f].Source, cyGraph.Edges[f].Target>>))
    /\ [][cyGraph' # cyGraph => rows' = rows]_vars

C29_Witness ==
    /\ cyGraph.built
    /\ Len(rows) = 2
    /\ rows[1].SrcAssetID = <<"A", "0", "0", "0", "2">>
    /\ rows[1].DstAssetID = <<"A", "0", "0", "0", "1">>
    /\ rows[2].SrcAssetID = <<"A", "0", "0", "0", "1">>
    /\ rows[2].DstAssetID = <<"A", "0", "0", "0", "2">>
    /\ cyGraph.Nodes[1].ID = <<"A", "0", "0", "0", "1">>
    /\ cyGraph.Edges[1].Source = <<"A", "0", "0", "0", "2">>
    /\ cyGraph.Edges[2].Source = <<"A", "0", "0", "0", "1">>

\* C30: every request that has arrived is eventually answered, with status
\* 200 or 500, whatever the other requests do, provided every call it makes
\* to the store returns: no step of a request waits for another task, and
\* none is repeated.
C30_EveryRequestCompletes ==
    \A t \in Tasks :
        (call[t].hpc = "query") ~> (call[t].hpc = "done" /\ call[t].status \in {200, 500})

C30_Witness ==
    \E t, u \in Tasks :
        /\ t # u
        /\ call[t].hpc = "done" /\ call[t].status = 200
        /\ call[t].q.calls = <<"GetSession", "Execute:USE", "Execute:query", "Release">>
        /\ call[u].hpc = "query" /\ call[u].q.pc = "execute"
        /\ sessionsOut = 1

=============================================================================
